---- MODULE Spec2Model ----
(***************************************************************************)
(* axioma-py helper layer: Portfolio, PortfolioGroup and BatchDefinition   *)
(* facades over the Axioma Risk REST API.                                  *)
(*                                                                         *)
(* The remote service is the environment.  Every API call of a handler     *)
(* draws its response from the set of responses the transport can give     *)
(* (a response object, an AxiomaRequestValidationError carrying a message, *)
(* or a transport exception).  Each handler is one action; the remote      *)
(* calls it issued, in order and with the response each got, are kept in   *)
(* `calls`, how it ended (return value or exception) in `result`, and the  *)
(* arguments it was invoked with in `args`.                                *)
(***************************************************************************)
EXTENDS Integers, Sequences, FiniteSets

VARIABLES
    _portfolioName,        \* Portfolio._portfolioName (NoName: Python None)
    _portfolioId,          \* Portfolio._portfolioId (None until resolved)
    _portfolioDate,        \* Portfolio._portfolioDate (NoDate: Python None)
    _my_positions,         \* Portfolio._my_positions
    _portfolioGroupName,   \* PortfolioGroup._portfolioGroupName
    _portfolioGroupId,     \* PortfolioGroup._portfolioGroupId (Unset: no such attribute yet)
    _batchDefinitionName,  \* BatchDefinition._batchDefinitionName
    _batchDefinitionId,    \* BatchDefinition._batchDefinitionId (Unset: no such attribute yet)
    _valuation,            \* Portfolio._valuation (NoValuation: Python None)
    _portfolios,           \* PortfolioGroup._portfolios (NoList: Python None)
    _portfolioGroups,      \* BatchDefinition._portfolioGroups (NoList: Python None)
    _analysisDefinitions,  \* BatchDefinition._analysisDefinitions (NoList: Python None)
    srv,                   \* the service's portfolio collection: name -> identity
    calls,                 \* remote calls issued by the most recent operation
    result,                \* how the most recent operation ended
    args,                  \* the arguments of the most recent operation
    generator,             \* the generator most recently returned by get_position_dates
    _analysisDefinitionName,  \* AnalysisDefinition._analysisDefinitionName
    _analysisDefinitionId,    \* AnalysisDefinition._analysisDefinitionId (Unset: no such attribute yet)
    roundTrip,             \* a Position on its way through the write payload and back
    clients                \* put_portfolio invocations of separate clients, each at its next remote call

vars == <<_portfolioName, _portfolioId, _portfolioDate, _my_positions,
          _portfolioGroupName, _portfolioGroupId,
          _batchDefinitionName, _batchDefinitionId,
          _valuation, _portfolios, _portfolioGroups, _analysisDefinitions,
          srv, calls, result, args, generator,
          _analysisDefinitionName, _analysisDefinitionId, roundTrip, clients>>

\* The member lists of the PortfolioGroup and of the BatchDefinition.
memberVars == <<_portfolios, _portfolioGroups, _analysisDefinitions>>

\* The fields of the AnalysisDefinition.
analysisVars == <<_analysisDefinitionName, _analysisDefinitionId>>

---------------------------------------------------------------------------
(* Values *)

\* Python None in an integer-valued field (_portfolioId = None).
None == -1

\* An instance attribute that was never assigned (reading it raises AttributeError).
Unset == -2

\* Python None in a string-valued field.
NoName == "None"

\* Python None as the portfolio date; str(None) is 'None'.
NoDate == "None"

\* Python None in the cached valuation.
NoValuation == "None"

\* Python None in a list-valued field.
NoList == <<None>>

Names == {"A", "B"}

\* datetime.date values, written as their ISO form.
Dates == {"2025-06-25"}

\* Longest item list a name lookup returns in the model.
MaxItems == 2

\* Most positions a portfolio holds in the model.
MaxPositions == 5

\* put_positions' chunk_size.  The source sets 10000; the model scales it down
\* so that position lists of up to MaxPositions span several chunks.
chunk_size == 2

ClientIds == {1, 2}

Quantities == {100}

\* Position objects: client_id and quantity.
Positions == [client_id : ClientIds, quantity : Quantities]

\* Status codes of delete and patch responses.
Statuses == {200, 299, 404}

\* Location headers of creation responses, as character sequences.
Loc42 == <<"/", "v", "1", "/", "p", "/", "4", "2">>
Loc7 == <<"/", "p", "/", "7">>
Locations == {Loc42, Loc7}

\* The identities the service hands out.
Ids == {42, 7}

\* The location reference the service gives the resource it created as id.
LocationOf(id) == IF id = 42 THEN Loc42 ELSE Loc7

---------------------------------------------------------------------------
(* Python built-ins used by the handlers *)

Digits == <<"0", "1", "2", "3", "4", "5", "6", "7", "8", "9">>

IsDigit(c) == \E i \in 1..10 : Digits[i] = c

DigitVal(c) == (CHOOSE i \in 1..10 : Digits[i] = c) - 1

\* str.split(sep): the pieces between the separators, left to right.
RECURSIVE split(_, _)
split(s, sep) ==
    IF \A i \in 1..Len(s) : s[i] # sep
    THEN <<s>>
    ELSE LET k == CHOOSE i \in 1..Len(s) :
                      /\ s[i] = sep
                      /\ \A j \in 1..(i - 1) : s[j] # sep
         IN  <<SubSeq(s, 1, k - 1)>> \o split(SubSeq(s, k + 1, Len(s)), sep)

\* seq[-1]
Last(seq) == seq[Len(seq)]

\* int(s) is defined (no ValueError) for a non-empty string of decimal digits.
IsInt(s) == Len(s) > 0 /\ \A i \in 1..Len(s) : IsDigit(s[i])

\* int(s) for a string of decimal digits.
RECURSIVE int(_)
int(s) ==
    IF Len(s) = 0 THEN 0
    ELSE 10 * int(SubSeq(s, 1, Len(s) - 1)) + DigitVal(s[Len(s)])

\* A different reading of the location reference: the integer in the first
\* numeric path segment instead of the last one.
LocationIdFirstNumeric(location) ==
    LET segs == split(location, "/")
        k == CHOOSE i \in 1..Len(segs) :
                 /\ \E j \in 1..Len(segs[i]) : IsDigit(segs[i][j])
                 /\ \A h \in 1..(i - 1) : \A j \in 1..Len(segs[h]) : ~IsDigit(segs[h][j])
    IN  int(SelectSeq(segs[k], IsDigit))

\* int(r.headers['location'].split('/')[-1])
LocationId(location) == int(Last(split(location, "/")))

---------------------------------------------------------------------------
(* Responses of the transport *)

Resp(exc, message, status, location, items) ==
    [exc |-> exc, message |-> message, status |-> status,
     location |-> location, items |-> items]

\* A response object with a status code.
Status(code) == Resp("", "", code, <<>>, <<>>)

\* A 201 creation response exposing a location reference.
Created(location) == Resp("", "", 201, location, <<>>)

\* A list response whose JSON body holds the ids of the matching items.
Listed(items) == Resp("", "", 200, <<>>, items)

\* AxiomaRequestValidationError whose content is {"message": message}.
ValidationError(message) ==
    Resp("AxiomaRequestValidationError", message, 400, <<>>, <<>>)

\* Any exception that is not an AxiomaRequestValidationError.
TransportError == Resp("ConnectionError", "", 0, <<>>, <<>>)

Duplicate == ValidationError("Duplicate Resource")

ItemLists == UNION {[1..n -> Ids] : n \in 0..MaxItems}

CreateResponses ==
    {Created(LocationOf(i)) : i \in Ids}
        \cup {Duplicate, ValidationError("Bad Request"), TransportError}

LookupResponses == {Listed(items) : items \in ItemLists} \cup {TransportError}

UpdateResponses == {Status(204), Duplicate, TransportError}

\* One remote call: the API method, the identity, date and name it was scoped
\* to, the positions it carried, and the response it got.
Call(api, id, date, name, upsert, resp) ==
    [api |-> api, id |-> id, date |-> date, name |-> name,
     upsert |-> upsert, resp |-> resp]

\* A response that is never read, because the call is never made.
NotCalled == Resp("", "", 0, <<>>, <<>>)

\* The responses the lookup can get after the create response cr: the handlers
\* reach it only from the handler of AxiomaRequestValidationError.
LookupsAfter(cr) ==
    IF cr.exc = "AxiomaRequestValidationError" THEN LookupResponses ELSE {NotCalled}

\* The responses the update can get after the lookup response lr: the handlers
\* reach it only with a first item to target.
UpdatesAfter(cr, lr, responses) ==
    IF cr.exc = "AxiomaRequestValidationError" /\ lr.exc = "" /\ Len(lr.items) > 0
    THEN responses ELSE {NotCalled}

\* How an operation ended: exc is the exception it raised ("" if it returned),
\* ret the value it returned.  faithful: every response it got is the one a
\* service enforcing name uniqueness over `srv` gives when nothing goes wrong.
Result(op, exc, ret, faithful) ==
    [op |-> op, exc |-> exc, ret |-> ret, faithful |-> faithful]

\* No Position given.
NoPosition == [client_id |-> None, quantity |-> None]

\* A date argument: a datetime.date (iso is its ISO form), a str (chars are
\* its characters) or None.
DateArg(type, chars, iso) == [type |-> type, chars |-> chars, iso |-> iso]

NoDateArg == DateArg("NoneType", <<>>, NoDate)

\* An object handed to an add-members or remove-member operation: its Python
\* type, its remote identity attribute (None, Unset when it has no such
\* attribute, or the identity) and its name.
Item(type, id, name) == [type |-> type, id |-> id, name |-> name]

\* The arguments of an operation.
Args(items, id, date, position, valuation) ==
    [items |-> items, id |-> id, date |-> date, position |-> position,
     valuation |-> valuation]

NoArgs == Args(<<>>, None, NoDateArg, NoPosition, NoValuation)

\* A generator object: created (its body has not started), suspended at a
\* yield with the items still to be looked at, or closed; "none" when
\* get_position_dates has not been called.
Generator(state, items) == [state |-> state, items |-> items]

NoGenerator == Generator("none", <<>>)

\* A key that a dict does not have.
Missing == "<missing>"

\* IdentifierType members of the model, by name.  Of the members the source
\* defines, RedCodeTicker is the one whose value is not spelt as its name.
IdentifierTypeNames == {"ISIN", "TICKER", "RedCodeTicker"}

\* IdentifierType.<name>.value
IdentifierType_value(name) == IF name = "RedCodeTicker" THEN "RedcodeTicker" ELSE name

\* QuantityType members of the model, by name: the one the tests use.
QuantityTypeNames == {"NumberOfInstruments"}

\* QuantityType.<name>.value, taken to be spelt as the name.
QuantityType_value(name) == name

\* Identifier(ident, value), Quantity(value, scale, currency) and a Position
\* with its identifiers and its quantity.
Identifier(ident, value) == [ident |-> ident, value |-> value]

Quantity(value, scale, currency) == [value |-> value, scale |-> scale, currency |-> currency]

FullPosition(client_id, identifiers, quantity) ==
    [client_id |-> client_id, identifiers |-> identifiers, quantity |-> quantity]

NoFullPosition == FullPosition(None, <<>>, Quantity(None, "", NoName))

\* A position dict of a request or response body; currency is the top-level
\* 'currency' key.
Payload(clientId, identifiers, quantity, currency) ==
    [clientId |-> clientId, identifiers |-> identifiers, quantity |-> quantity,
     currency |-> currency]

NoPayload == Payload(None, <<>>, Quantity(None, "", Missing), Missing)

\* A Position on its way from object to write payload to read item to object:
\* stage is "position", "written" or "read".
RoundTrip(stage, position, payload, parsed, exc) ==
    [stage |-> stage, position |-> position, payload |-> payload,
     parsed |-> parsed, exc |-> exc]

NoRoundTrip == RoundTrip("none", NoFullPosition, NoPayload, NoFullPosition, "")

\* The clients that run put_portfolio side by side, each with its own Portfolio
\* object.
Clients == {1, 2}

\* One client's invocation of put_portfolio: pc is the remote call it issues
\* next ("assign" when it is at `self._portfolioId = pId`, "returned" and
\* "raised" once it has ended), pId the handler's local variable, id its
\* Portfolio's _portfolioId, exc the exception that ended it.
Client(pc, pId, id, exc) == [pc |-> pc, pId |-> pId, id |-> id, exc |-> exc]

\* No client is running.
NoClients == [c \in Clients |-> Client("idle", None, None, "")]

---------------------------------------------------------------------------
(* Portfolio.put_portfolio *)

\* The handler with the update call left out of the conflict fallback.
Portfolio_put_portfolio_NoUpdate(name, cr, lr, ur) ==
    LET post == Call("post_portfolio", None, NoDate, name, <<>>, cr)
        get  == Call("get_portfolios", None, NoDate, name, <<>>, lr)
    IN  IF cr.exc = ""
        THEN [calls |-> <<post>>, exc |-> "", pId |-> LocationId(cr.location)]
        ELSE IF cr.exc = "AxiomaRequestValidationError"
        THEN IF cr.message = "Duplicate Resource"
             THEN IF lr.exc # ""
                  THEN [calls |-> <<post, get>>, exc |-> lr.exc, pId |-> None]
                  ELSE IF Len(lr.items) = 0
                  THEN [calls |-> <<post, get>>, exc |-> "IndexError", pId |-> None]
                  ELSE [calls |-> <<post, get>>, exc |-> "", pId |-> lr.items[1]]
             ELSE [calls |-> <<post>>, exc |-> cr.exc, pId |-> None]
        ELSE [calls |-> <<post>>, exc |-> cr.exc, pId |-> None]

\* The handler taking the last item of the lookup instead of the first.
Portfolio_put_portfolio_LastItem(name, cr, lr, ur) ==
    LET post == Call("post_portfolio", None, NoDate, name, <<>>, cr)
        get  == Call("get_portfolios", None, NoDate, name, <<>>, lr)
    IN  IF cr.exc = ""
        THEN [calls |-> <<post>>, exc |-> "", pId |-> LocationId(cr.location)]
        ELSE IF cr.exc = "AxiomaRequestValidationError"
        THEN IF cr.message = "Duplicate Resource"
             THEN IF lr.exc # ""
                  THEN [calls |-> <<post, get>>, exc |-> lr.exc, pId |-> None]
                  ELSE IF Len(lr.items) = 0
                  THEN [calls |-> <<post, get>>, exc |-> "IndexError", pId |-> None]
                  ELSE LET pId == lr.items[Len(lr.items)]
                           put == Call("put_portfolio", pId, NoDate, name, <<>>, ur)
                       IN  [calls |-> <<post, get, put>>, exc |-> ur.exc,
                            pId |-> IF ur.exc = "" THEN pId ELSE None]
             ELSE [calls |-> <<post>>, exc |-> cr.exc, pId |-> None]
        ELSE [calls |-> <<post>>, exc |-> cr.exc, pId |-> None]

\* The handler retrying the fallback update once after it failed.
Portfolio_put_portfolio_Retry(name, cr, lr, ur) ==
    LET post == Call("post_portfolio", None, NoDate, name, <<>>, cr)
        get  == Call("get_portfolios", None, NoDate, name, <<>>, lr)
    IN  IF cr.exc = ""
        THEN [calls |-> <<post>>, exc |-> "", pId |-> LocationId(cr.location)]
        ELSE IF cr.exc = "AxiomaRequestValidationError"
        THEN IF cr.message = "Duplicate Resource"
             THEN IF lr.exc # ""
                  THEN [calls |-> <<post, get>>, exc |-> lr.exc, pId |-> None]
                  ELSE IF Len(lr.items) = 0
                  THEN [calls |-> <<post, get>>, exc |-> "IndexError", pId |-> None]
                  ELSE LET pId == lr.items[1]
                           put == Call("put_portfolio", pId, NoDate, name, <<>>, ur)
                       IN  IF ur.exc = ""
                           THEN [calls |-> <<post, get, put>>, exc |-> "", pId |-> pId]
                           ELSE [calls |-> <<post, get, put, put>>, exc |-> ur.exc,
                                 pId |-> None]
             ELSE [calls |-> <<post>>, exc |-> cr.exc, pId |-> None]
        ELSE [calls |-> <<post>>, exc |-> cr.exc, pId |-> None]

\* The handler falling back to lookup and update on every validation error.
Portfolio_put_portfolio_AnyError(name, cr, lr, ur) ==
    LET post == Call("post_portfolio", None, NoDate, name, <<>>, cr)
        get  == Call("get_portfolios", None, NoDate, name, <<>>, lr)
    IN  IF cr.exc = ""
        THEN [calls |-> <<post>>, exc |-> "", pId |-> LocationId(cr.location)]
        ELSE IF cr.exc = "AxiomaRequestValidationError"
        THEN IF lr.exc # ""
             THEN [calls |-> <<post, get>>, exc |-> lr.exc, pId |-> None]
             ELSE IF Len(lr.items) = 0
             THEN [calls |-> <<post, get>>, exc |-> "IndexError", pId |-> None]
             ELSE LET pId == lr.items[1]
                      put == Call("put_portfolio", pId, NoDate, name, <<>>, ur)
                  IN  [calls |-> <<post, get, put>>, exc |-> ur.exc,
                       pId |-> IF ur.exc = "" THEN pId ELSE None]
        ELSE [calls |-> <<post>>, exc |-> cr.exc, pId |-> None]

\* The handler deleting the portfolio's positions once the identity is known.
Portfolio_put_portfolio_Sync(name, cr, lr, ur) ==
    LET post == Call("post_portfolio", None, NoDate, name, <<>>, cr)
        wipe == Call("delete_positions", LocationId(cr.location), NoDate, NoName,
                     <<>>, Status(200))
    IN  IF cr.exc = ""
        THEN [calls |-> <<post, wipe>>, exc |-> "", pId |-> LocationId(cr.location)]
        ELSE [calls |-> <<post>>, exc |-> cr.exc, pId |-> None]

\* Portfolio.put_portfolio run against the responses cr (create), lr (lookup)
\* and ur (update): the calls issued, the exception that leaves the handler
\* ("" when it reaches `self._portfolioId = pId; return True`), and pId.
Portfolio_put_portfolio(name, cr, lr, ur) ==
    LET post == Call("post_portfolio", None, NoDate, name, <<>>, cr)
        get  == Call("get_portfolios", None, NoDate, name, <<>>, lr)
    IN  IF cr.exc = ""
        THEN [calls |-> <<post>>, exc |-> "", pId |-> LocationId(cr.location)]
        ELSE IF cr.exc = "AxiomaRequestValidationError"
        THEN IF cr.message = "Duplicate Resource"
             THEN IF lr.exc # ""
                  THEN [calls |-> <<post, get>>, exc |-> lr.exc, pId |-> None]
                  ELSE IF Len(lr.items) = 0
                  THEN [calls |-> <<post, get>>, exc |-> "IndexError", pId |-> None]
                  ELSE LET pId == lr.items[1]
                           put == Call("put_portfolio", pId, NoDate, name, <<>>, ur)
                       IN  [calls |-> <<post, get, put>>, exc |-> ur.exc,
                            pId |-> IF ur.exc = "" THEN pId ELSE None]
             ELSE [calls |-> <<post>>, exc |-> cr.exc, pId |-> None]
        ELSE [calls |-> <<post>>, exc |-> cr.exc, pId |-> None]

\* The identities the service holds.
Taken(store) == {store[n] : n \in DOMAIN store} \ {None}

\* The responses a service that enforces name uniqueness over `store` gives
\* to a call on its portfolio collection when nothing goes wrong.
HonestResponses(store, call) ==
    IF call.api = "post_portfolio"
    THEN IF call.name \notin Names THEN {ValidationError("Bad Request")}
         ELSE IF store[call.name] # None THEN {Duplicate}
         ELSE {Created(LocationOf(i)) : i \in Ids \ Taken(store)}
    ELSE IF call.api = "get_portfolios"
    THEN IF call.name \in Names /\ store[call.name] # None
         THEN {Listed(<<store[call.name]>>)}
         ELSE {Listed(<<>>)}
    ELSE IF call.api = "put_portfolio"
    THEN IF call.id \notin Taken(store) THEN {ValidationError("Bad Request")}
         ELSE IF call.name \in Names /\ store[call.name] \notin {None, call.id}
         THEN {Duplicate}
         ELSE {Status(204)}
    ELSE {}

\* The service's collection after one call: a successful create adds the name
\* under the identity its location reference stands for.
ServerStep(store, call) ==
    IF call.api = "post_portfolio" /\ call.resp.exc = "" /\ call.name \in Names
    THEN [store EXCEPT ![call.name] =
              CHOOSE i \in Ids : LocationOf(i) = call.resp.location]
    ELSE store

\* The service's collection after the calls cs, in order.
RECURSIVE ServerAfter(_, _)
ServerAfter(store, cs) ==
    IF Len(cs) = 0 THEN store
    ELSE ServerAfter(ServerStep(store, cs[1]), SubSeq(cs, 2, Len(cs)))

\* Every call of cs got the response of a service enforcing name uniqueness.
RECURSIVE Faithful(_, _)
Faithful(store, cs) ==
    IF Len(cs) = 0 THEN TRUE
    ELSE /\ cs[1].resp \in HonestResponses(store, cs[1])
         /\ Faithful(ServerStep(store, cs[1]), SubSeq(cs, 2, Len(cs)))

\* Every run of put_portfolio: one per combination of responses it can get.
PutPortfolioRuns(name) ==
    UNION {UNION {{Portfolio_put_portfolio(name, cr, lr, ur) :
                      ur \in UpdatesAfter(cr, lr, UpdateResponses)} :
                  lr \in LookupsAfter(cr)} :
           cr \in CreateResponses}

WasFaithfulPut == result.op = "put_portfolio" /\ result.exc = "" /\ result.faithful

put_portfolio ==
    \E run \in PutPortfolioRuns(_portfolioName) :
        /\ calls' = run.calls
        /\ _portfolioId' = IF run.exc = "" THEN run.pId ELSE _portfolioId
        /\ srv' = ServerAfter(srv, run.calls)
        /\ result' = Result("put_portfolio", run.exc,
                            IF run.exc = "" THEN "True" ELSE "",
                            Faithful(srv, run.calls))
        /\ UNCHANGED <<_portfolioName, _portfolioDate, _my_positions,
                       _portfolioGroupName, _portfolioGroupId,
                       _batchDefinitionName, _batchDefinitionId>>
        /\ UNCHANGED <<generator, analysisVars, roundTrip, clients>>
        /\ args' = NoArgs
        /\ UNCHANGED <<_valuation, memberVars>>

---------------------------------------------------------------------------
(* PortfolioGroup.put_portfolio_group and BatchDefinition.put_batch_definition *)

\* Responses of an update whose JSON body the handler reads back.
GroupUpdateResponses ==
    {Listed(<<>>)} \cup {Listed(<<i>>) : i \in Ids} \cup {Duplicate, TransportError}

\* PortfolioGroup.put_portfolio_group against the responses cr, lr, ur.  The
\* update is PortfolioGroupsAPI.put_portfolio; its response body is asserted to
\* name the identity that was looked up.
PortfolioGroup_put_portfolio_group(name, cr, lr, ur) ==
    LET post == Call("post_portfolio_group", None, NoDate, name, <<>>, cr)
        get  == Call("get_portfolio_group", None, NoDate, name, <<>>, lr)
    IN  IF cr.exc = ""
        THEN [calls |-> <<post>>, exc |-> "", pId |-> LocationId(cr.location)]
        ELSE IF cr.exc = "AxiomaRequestValidationError"
        THEN IF cr.message = "Duplicate Resource"
             THEN IF lr.exc # ""
                  THEN [calls |-> <<post, get>>, exc |-> lr.exc, pId |-> None]
                  ELSE IF Len(lr.items) = 0
                  THEN [calls |-> <<post, get>>, exc |-> "IndexError", pId |-> None]
                  ELSE LET pId == lr.items[1]
                           put == Call("put_portfolio", pId, NoDate, name, <<>>, ur)
                           exc == IF ur.exc # "" THEN ur.exc
                                  ELSE IF Len(ur.items) = 0 THEN "IndexError"
                                  ELSE IF ur.items[1] # pId THEN "AssertionError"
                                  ELSE ""
                       IN  [calls |-> <<post, get, put>>, exc |-> exc,
                            pId |-> IF exc = "" THEN pId ELSE None]
             ELSE [calls |-> <<post>>, exc |-> cr.exc, pId |-> None]
        ELSE [calls |-> <<post>>, exc |-> cr.exc, pId |-> None]

\* BatchDefinition.put_batch_definition against the responses cr, lr.  The
\* update it names, BatchDefinitionsAPI.put_portfolio, is not a method of
\* BatchDefinitionsAPI (which has put_batch_definition): the attribute lookup
\* raises AttributeError and no update call is issued.
BatchDefinition_put_batch_definition(name, cr, lr) ==
    LET post == Call("post_batch_definition", None, NoDate, name, <<>>, cr)
        get  == Call("get_batch_definitions", None, NoDate, name, <<>>, lr)
    IN  IF cr.exc = ""
        THEN [calls |-> <<post>>, exc |-> "", pId |-> LocationId(cr.location)]
        ELSE IF cr.exc = "AxiomaRequestValidationError"
        THEN IF cr.message = "Duplicate Resource"
             THEN IF lr.exc # ""
                  THEN [calls |-> <<post, get>>, exc |-> lr.exc, pId |-> None]
                  ELSE IF Len(lr.items) = 0
                  THEN [calls |-> <<post, get>>, exc |-> "IndexError", pId |-> None]
                  ELSE [calls |-> <<post, get>>, exc |-> "AttributeError", pId |-> None]
             ELSE [calls |-> <<post>>, exc |-> cr.exc, pId |-> None]
        ELSE [calls |-> <<post>>, exc |-> cr.exc, pId |-> None]

\* Every run of put_portfolio_group: one per combination of responses.
PutPortfolioGroupRuns(name) ==
    UNION {UNION {{PortfolioGroup_put_portfolio_group(name, cr, lr, ur) :
                      ur \in UpdatesAfter(cr, lr, GroupUpdateResponses)} :
                  lr \in LookupsAfter(cr)} :
           cr \in CreateResponses}

\* Every run of put_batch_definition: one per combination of responses.
PutBatchDefinitionRuns(name) ==
    UNION {{BatchDefinition_put_batch_definition(name, cr, lr) :
               lr \in LookupsAfter(cr)} :
           cr \in CreateResponses}

put_portfolio_group ==
    \E run \in PutPortfolioGroupRuns(_portfolioGroupName) :
        /\ calls' = run.calls
        /\ _portfolioGroupId' = IF run.exc = "" THEN run.pId ELSE _portfolioGroupId
        /\ result' = Result("put_portfolio_group", run.exc,
                            IF run.exc = "" THEN "True" ELSE "",
                            FALSE)
        /\ UNCHANGED <<_portfolioName, _portfolioId, _portfolioDate, _my_positions,
                       _portfolioGroupName, _batchDefinitionName,
                       _batchDefinitionId, srv>>
        /\ UNCHANGED <<generator, analysisVars, roundTrip, clients>>
        /\ args' = NoArgs
        /\ UNCHANGED <<_valuation, memberVars>>

put_batch_definition ==
    \E run \in PutBatchDefinitionRuns(_batchDefinitionName) :
        /\ calls' = run.calls
        /\ _batchDefinitionId' = IF run.exc = "" THEN run.pId ELSE _batchDefinitionId
        /\ result' = Result("put_batch_definition", run.exc,
                            IF run.exc = "" THEN "True" ELSE "",
                            FALSE)
        /\ UNCHANGED <<_portfolioName, _portfolioId, _portfolioDate, _my_positions,
                       _portfolioGroupName, _portfolioGroupId,
                       _batchDefinitionName, srv>>
        /\ UNCHANGED <<generator, analysisVars, roundTrip, clients>>
        /\ args' = NoArgs
        /\ UNCHANGED <<_valuation, memberVars>>

---------------------------------------------------------------------------
(* The upsert handlers of the three entities *)

\* A Portfolio, a PortfolioGroup and a BatchDefinition right after construction;
\* the service holds no portfolio yet.
InitUpsert ==
    /\ _portfolioName \in Names
    /\ _portfolioId = None
    /\ _portfolioDate = NoDate
    /\ _my_positions = <<>>
    /\ _portfolioGroupName = "G"
    /\ _portfolioGroupId = Unset
    /\ _batchDefinitionName = "D"
    /\ _batchDefinitionId = Unset
    /\ srv = [n \in Names |-> None]
    /\ calls = <<>>
    /\ result = Result("__init__", "", "None", FALSE)
    /\ _valuation = NoValuation
    /\ _portfolios = NoList
    /\ _portfolioGroups = NoList
    /\ _analysisDefinitions = NoList
    /\ args = NoArgs
    /\ generator = NoGenerator
    /\ roundTrip = NoRoundTrip
    /\ clients = NoClients
    /\ _analysisDefinitionName = "S"
    /\ _analysisDefinitionId = Unset

NextUpsert ==
    \/ put_portfolio
    \/ put_portfolio_group
    \/ put_batch_definition

SpecUpsert == InitUpsert /\ [][NextUpsert]_vars

\* The three entities right after construction, each with its name given or
\* left None (the constructors take any value for name).
InitNames ==
    /\ _portfolioName \in {"A", NoName}
    /\ _portfolioId = None
    /\ _portfolioDate = NoDate
    /\ _my_positions = <<>>
    /\ _portfolioGroupName \in {"G", NoName}
    /\ _portfolioGroupId = Unset
    /\ _batchDefinitionName \in {"D", NoName}
    /\ _batchDefinitionId = Unset
    /\ srv = [n \in Names |-> None]
    /\ calls = <<>>
    /\ result = Result("__init__", "", "None", FALSE)
    /\ _valuation = NoValuation
    /\ _portfolios = NoList
    /\ _portfolioGroups = NoList
    /\ _analysisDefinitions = NoList
    /\ args = NoArgs
    /\ generator = NoGenerator
    /\ roundTrip = NoRoundTrip
    /\ clients = NoClients
    /\ _analysisDefinitionName = "S"
    /\ _analysisDefinitionId = Unset

SpecNames == InitNames /\ [][NextUpsert]_vars

---------------------------------------------------------------------------
(* Resolving an identity by name *)

\* str(n) for a non-negative int.
RECURSIVE IntStr(_)
IntStr(n) == IF n < 10 THEN Digits[n + 1] ELSE IntStr(n \div 10) \o Digits[(n % 10) + 1]

\* Outcomes of the list queries of get_batch_definition_id and
\* get_analysis_definition_id.
IdLookupResponses == LookupResponses \cup {ValidationError("Bad Request")}

\* get_batch_definition_id taking the last item of the filtered result.
BatchDefinition_get_batch_definition_id_LastItem(name, r) ==
    LET get == Call("get_batch_definitions", None, NoDate, name, <<>>, r)
    IN  IF name = NoName THEN [calls |-> <<>>, exc |-> "ValueError", pId |-> None]
        ELSE IF r.exc # "" THEN [calls |-> <<get>>, exc |-> r.exc, pId |-> None]
        ELSE IF Len(r.items) = 0
        THEN [calls |-> <<get>>, exc |-> "IndexError", pId |-> None]
        ELSE [calls |-> <<get>>, exc |-> "", pId |-> Last(r.items)]

\* BatchDefinition.get_batch_definition_id against the response r: pId is what
\* int(c['items'][0]['id']) gives.
BatchDefinition_get_batch_definition_id(name, r) ==
    LET get == Call("get_batch_definitions", None, NoDate, name, <<>>, r)
    IN  IF name = NoName THEN [calls |-> <<>>, exc |-> "ValueError", pId |-> None]
        ELSE IF r.exc # "" THEN [calls |-> <<get>>, exc |-> r.exc, pId |-> None]
        ELSE IF Len(r.items) = 0
        THEN [calls |-> <<get>>, exc |-> "IndexError", pId |-> None]
        ELSE [calls |-> <<get>>, exc |-> "", pId |-> r.items[1]]

\* AnalysisDefinition.get_analysis_definition_id against the response r; the
\* query filters on the name and on the team 'Axioma Standard Views (Readonly)'.
AnalysisDefinition_get_analysis_definition_id(name, r) ==
    LET get == Call("get_analysis_definitions", None, NoDate, name, <<>>, r)
    IN  IF name = NoName THEN [calls |-> <<>>, exc |-> "ValueError", pId |-> None]
        ELSE IF r.exc # "" THEN [calls |-> <<get>>, exc |-> r.exc, pId |-> None]
        ELSE IF Len(r.items) = 0
        THEN [calls |-> <<get>>, exc |-> "IndexError", pId |-> None]
        ELSE [calls |-> <<get>>, exc |-> "", pId |-> r.items[1]]

\* Portfolio.get_portfolio_by_name (a classmethod) against the response r:
\* ret is "None" when no item matched, "Portfolio" when a Portfolio bound to
\* the first item's identity is returned.
Portfolio_get_portfolio_by_name(name, r) ==
    LET get == Call("get_portfolios", None, NoDate, name, <<>>, r)
    IN  IF r.exc # "" THEN [calls |-> <<get>>, exc |-> r.exc, ret |-> "", pId |-> None]
        ELSE IF Len(r.items) = 0
        THEN [calls |-> <<get>>, exc |-> "", ret |-> "None", pId |-> None]
        ELSE [calls |-> <<get>>, exc |-> "", ret |-> "Portfolio", pId |-> r.items[1]]

get_batch_definition_id ==
    \E r \in IdLookupResponses :
        LET run == BatchDefinition_get_batch_definition_id(_batchDefinitionName, r)
        IN  /\ calls' = run.calls
            /\ _batchDefinitionId' = IF run.exc = "" THEN run.pId ELSE _batchDefinitionId
            /\ result' = Result("get_batch_definition_id", run.exc,
                                IF run.exc = "" THEN IntStr(run.pId) ELSE "", FALSE)
            /\ args' = NoArgs
            /\ UNCHANGED <<_portfolioName, _portfolioId, _portfolioDate, _my_positions,
                           _valuation, _portfolioGroupName, _portfolioGroupId,
                           _batchDefinitionName, memberVars, analysisVars,
                           generator, roundTrip, clients, srv>>

get_analysis_definition_id ==
    \E r \in IdLookupResponses :
        LET run == AnalysisDefinition_get_analysis_definition_id(
                       _analysisDefinitionName, r)
        IN  /\ calls' = run.calls
            /\ _analysisDefinitionId' =
                   IF run.exc = "" THEN run.pId ELSE _analysisDefinitionId
            /\ result' = Result("get_analysis_definition_id", run.exc,
                                IF run.exc = "" THEN IntStr(run.pId) ELSE "", FALSE)
            /\ args' = NoArgs
            /\ UNCHANGED <<_portfolioName, _portfolioId, _portfolioDate, _my_positions,
                           _valuation, _portfolioGroupName, _portfolioGroupId,
                           _batchDefinitionName, _batchDefinitionId, memberVars,
                           _analysisDefinitionName, generator, roundTrip, clients, srv>>

\* p = Portfolio.get_portfolio_by_name(name): when a Portfolio is returned it
\* is the portfolio the caller goes on with, constructed without date and
\* positions; otherwise the caller keeps the one it had.
get_portfolio_by_name ==
    \E name \in Names, r \in LookupResponses :
        LET run == Portfolio_get_portfolio_by_name(name, r)
        IN  /\ calls' = run.calls
            /\ IF run.ret = "Portfolio"
               THEN /\ _portfolioName' = name
                    /\ _portfolioId' = run.pId
                    /\ _portfolioDate' = NoDate
                    /\ _my_positions' = <<>>
                    /\ _valuation' = NoValuation
               ELSE UNCHANGED <<_portfolioName, _portfolioId, _portfolioDate,
                                _my_positions, _valuation>>
            /\ result' = Result("get_portfolio_by_name", run.exc, run.ret, FALSE)
            /\ args' = Args(<<Item("str", None, name)>>, None, NoDateArg, NoPosition,
                            NoValuation)
            /\ UNCHANGED <<_portfolioGroupName, _portfolioGroupId,
                           _batchDefinitionName, _batchDefinitionId, memberVars,
                           analysisVars, generator, roundTrip, clients, srv>>

\* Most entities, besides the one an operation works on, that hold a remote
\* identity when the operation is started.  The entities share no field.
MaxResolved == 1

\* The remote identity field of an entity.
IdentityOf(entity) ==
    IF entity = "Portfolio" THEN _portfolioId
    ELSE IF entity = "PortfolioGroup" THEN _portfolioGroupId
    ELSE IF entity = "BatchDefinition" THEN _batchDefinitionId
    ELSE _analysisDefinitionId

\* The entities other than entity that hold a remote identity.
ResolvedBeside(entity) ==
    {e \in {"Portfolio", "PortfolioGroup", "BatchDefinition", "AnalysisDefinition"} \ {entity} :
        IdentityOf(e) \notin {None, Unset}}

\* An operation on entity can be started.
Startable(entity) == Cardinality(ResolvedBeside(entity)) < MaxResolved

\* The operations that resolve an identity by name.
NextResolve ==
    \/ Startable("Portfolio") /\ put_portfolio
    \/ Startable("PortfolioGroup") /\ put_portfolio_group
    \/ Startable("BatchDefinition") /\ put_batch_definition
    \/ Startable("BatchDefinition") /\ get_batch_definition_id
    \/ Startable("AnalysisDefinition") /\ get_analysis_definition_id
    \/ Startable("Portfolio") /\ get_portfolio_by_name

SpecResolve == InitUpsert /\ [][NextResolve]_vars

---------------------------------------------------------------------------
(* Portfolio positions *)

\* Position.__lt__ / __le__: ordered by client_id alone.
Position_le(a, b) == a.client_id <= b.client_id

\* x placed behind every element that is not greater than it.
Insert(seq, x) ==
    LET k == Cardinality({i \in 1..Len(seq) : Position_le(seq[i], x)})
    IN  SubSeq(seq, 1, k) \o <<x>> \o SubSeq(seq, k + 1, Len(seq))

\* sorted(seq): ascending and stable.
RECURSIVE sorted(_)
sorted(seq) ==
    IF Len(seq) <= 1 THEN seq
    ELSE Insert(sorted(SubSeq(seq, 1, Len(seq) - 1)), seq[Len(seq)])

\* Portfolio.add_position without the sort that follows the append.
Portfolio_add_position_NoSort(positions, position) == Append(positions, position)

\* Portfolio.add_position
Portfolio_add_position(positions, position) == sorted(Append(positions, position))

\* Portfolio.del_position: the first position with the client_id is removed.
Portfolio_del_position(positions, is_position, position, client_id) ==
    LET cid == IF is_position THEN position.client_id ELSE client_id
        hits == {i \in 1..Len(positions) : positions[i].client_id = cid}
    IN  IF hits = {} THEN positions
        ELSE LET k == CHOOSE i \in hits : \A j \in hits : i <= j
             IN  SubSeq(positions, 1, k - 1) \o SubSeq(positions, k + 1, Len(positions))

add_position ==
    \E position \in Positions :
        /\ Len(_my_positions) < MaxPositions
        /\ _my_positions' = Portfolio_add_position(_my_positions, position)
        /\ calls' = <<>>
        /\ result' = Result("add_position", "", "None", FALSE)
        /\ UNCHANGED <<_portfolioName, _portfolioId, _portfolioDate,
                       _portfolioGroupName, _portfolioGroupId,
                       _batchDefinitionName, _batchDefinitionId, srv>>
        /\ UNCHANGED <<generator, analysisVars, roundTrip, clients>>
        /\ args' = Args(<<>>, None, NoDateArg, position, NoValuation)
        /\ UNCHANGED <<_valuation, memberVars>>

del_position ==
    \E is_position \in BOOLEAN, position \in Positions, client_id \in ClientIds :
        /\ _my_positions' =
               Portfolio_del_position(_my_positions, is_position, position, client_id)
        /\ calls' = <<>>
        /\ result' = Result("del_position", "", "None", FALSE)
        /\ UNCHANGED <<_portfolioName, _portfolioId, _portfolioDate,
                       _portfolioGroupName, _portfolioGroupId,
                       _batchDefinitionName, _batchDefinitionId, srv>>
        /\ UNCHANGED <<generator, analysisVars, roundTrip, clients>>
        /\ args' = IF is_position
                   THEN Args(<<>>, None, NoDateArg, position, NoValuation)
                   ELSE Args(<<>>, client_id, NoDateArg, NoPosition, NoValuation)
        /\ UNCHANGED <<_valuation, memberVars>>

\* The positions setter: self._my_positions = sorted(value)
Portfolio_positions_setter(value) == sorted(value)

\* The positions a caller builds lists of: two of them share client_id 1 and
\* differ in quantity.
ListedPositions == Positions \cup {[client_id |-> 1, quantity |-> 200]}

\* Position lists handed to the constructor and to the positions setter.
PositionLists ==
    {<<>>} \cup {<<a>> : a \in ListedPositions}
        \cup {<<a, b>> : a \in ListedPositions, b \in ListedPositions}

\* A list of positions as operation arguments, each by its client_id.
PositionItems(value) ==
    [k \in 1..Len(value) |-> Item("Position", value[k].client_id, NoName)]

positions_setter ==
    \E value \in PositionLists :
        /\ _my_positions' = Portfolio_positions_setter(value)
        /\ calls' = <<>>
        /\ result' = Result("positions_setter", "", "None", FALSE)
        /\ UNCHANGED <<generator, analysisVars, roundTrip, clients>>
        /\ args' = Args(PositionItems(value), None, NoDateArg, NoPosition, NoValuation)
        /\ UNCHANGED <<_portfolioName, _portfolioId, _portfolioDate,
                       _portfolioGroupName, _portfolioGroupId,
                       _batchDefinitionName, _batchDefinitionId, srv>>
        /\ UNCHANGED <<_valuation, memberVars>>

\* A Portfolio right after construction with a position list:
\* self._my_positions = sorted(positions) if positions is not None else []
InitLocal ==
    /\ _portfolioName = "A"
    /\ _portfolioId = None
    /\ _portfolioDate = NoDate
    /\ _my_positions \in {sorted(ps) : ps \in PositionLists}
    /\ _portfolioGroupName = "G"
    /\ _portfolioGroupId = Unset
    /\ _batchDefinitionName = "D"
    /\ _batchDefinitionId = Unset
    /\ _valuation = NoValuation
    /\ _portfolios = NoList
    /\ _portfolioGroups = NoList
    /\ _analysisDefinitions = NoList
    /\ srv = [n \in Names |-> None]
    /\ calls = <<>>
    /\ result = Result("__init__", "", "None", FALSE)
    /\ args = NoArgs
    /\ generator = NoGenerator
    /\ roundTrip = NoRoundTrip
    /\ clients = NoClients
    /\ _analysisDefinitionName = "S"
    /\ _analysisDefinitionId = Unset

\* The local position operations.
NextLocal ==
    \/ add_position
    \/ del_position
    \/ positions_setter

SpecLocal == InitLocal /\ [][NextLocal]_vars

---------------------------------------------------------------------------
(* Portfolio.put_positions *)

StatusResponses == {Status(c) : c \in Statuses} \cup {TransportError}

\* x in range(lo, hi)
InRange(x, lo, hi) == lo <= x /\ x < hi

\* status_code in range(200, 299)
StatusOk(resp) == InRange(resp.status, 200, 299)

Min(a, b) == IF a < b THEN a ELSE b

\* seq[lo:hi] taken with hi included.
SliceInclusive(seq, lo, hi) == SubSeq(seq, lo + 1, Min(hi + 1, Len(seq)))

\* seq[lo:hi] for 0 <= lo <= hi
Slice(seq, lo, hi) == SubSeq(seq, lo + 1, Min(hi, Len(seq)))

\* range(0, stop, step) as a sequence
range(stop, step) == [k \in 1..((stop + step - 1) \div step) |-> (k - 1) * step]

\* The chunking that keeps the first chunk only.
Chunked_FirstOnly(positions, size) ==
    IF Len(positions) = 0 THEN <<>> ELSE <<Slice(positions, 0, size)>>

\* [positions[i:i + size] for i in range(0, len(positions), size)]
Chunked(positions, size) ==
    LET starts == range(Len(positions), size)
    IN  [k \in 1..Len(starts) |-> Slice(positions, starts[k], starts[k] + size)]

\* dict(clientId=a.client_id, ..., quantity=a.quantity.get_dict()) for a in chunk
Upsert(chunk) ==
    [k \in 1..Len(chunk) |->
        [clientId |-> chunk[k].client_id, quantity |-> chunk[k].quantity]]

\* The patch loop that goes on to the next chunk after a failed one.
RECURSIVE PatchRunsKeepGoing(_, _, _, _)
PatchRunsKeepGoing(i, chunks, id, date) ==
    IF i > Len(chunks) THEN {[calls |-> <<>>, ret |-> "True"]}
    ELSE UNION {
        LET patch == Call("patch_positions", id, date, NoName, Upsert(chunks[i]), pr)
        IN  {[calls |-> <<patch>> \o rest.calls,
              ret |-> IF pr.exc = "" /\ StatusOk(pr) THEN rest.ret ELSE "False"] :
                 rest \in PatchRunsKeepGoing(i + 1, chunks, id, date)} :
        pr \in StatusResponses}

\* The patch loop that answers a failed chunk with a delete of what the
\* earlier chunks wrote before it returns False.
RECURSIVE PatchRuns_Rollback(_, _, _, _)
PatchRuns_Rollback(i, chunks, id, date) ==
    IF i > Len(chunks) THEN {[calls |-> <<>>, ret |-> "True"]}
    ELSE UNION {
        LET patch == Call("patch_positions", id, date, NoName, Upsert(chunks[i]), pr)
            undo == Call("delete_positions", id, date, NoName, <<>>, Status(200))
        IN  IF pr.exc = "" /\ StatusOk(pr)
            THEN {[calls |-> <<patch>> \o rest.calls, ret |-> rest.ret] :
                     rest \in PatchRuns_Rollback(i + 1, chunks, id, date)}
            ELSE {[calls |-> <<patch, undo>>, ret |-> "False"]} :
        pr \in StatusResponses}

\* The patch loop of put_positions from chunk i on: every run it can take, one
\* patch call per chunk, each drawing its response; an exception or a status
\* outside range(200, 299) ends it with False.
RECURSIVE PatchRuns(_, _, _, _)
PatchRuns(i, chunks, id, date) ==
    IF i > Len(chunks) THEN {[calls |-> <<>>, ret |-> "True"]}
    ELSE UNION {
        LET patch == Call("patch_positions", id, date, NoName, Upsert(chunks[i]), pr)
        IN  IF pr.exc # "" THEN {[calls |-> <<patch>>, ret |-> "False"]}
            ELSE IF StatusOk(pr)
            THEN {[calls |-> <<patch>> \o rest.calls, ret |-> rest.ret] :
                     rest \in PatchRuns(i + 1, chunks, id, date)}
            ELSE {[calls |-> <<patch>>, ret |-> "False"]} :
        pr \in StatusResponses}

\* The delete step that goes on to the patches whatever status it got.
DeleteRunsIgnoreStatus(id, date, positions, size) ==
    UNION {
        LET delete == Call("delete_positions", id, date, NoName, <<>>, dr)
        IN  IF dr.exc # "" THEN {[calls |-> <<delete>>, ret |-> "False"]}
            ELSE {[calls |-> <<delete>> \o loop.calls, ret |-> loop.ret] :
                     loop \in PatchRuns(1, Chunked(positions, size), id, date)} :
        dr \in StatusResponses}

\* put_positions without its delete step: the patches go out at once.
DeleteRuns_NoDelete(id, date, positions, size) ==
    PatchRuns(1, Chunked(positions, size), id, date)

\* The delete step and what follows it, for the resolved identity id.
DeleteRuns(id, date, positions, size) ==
    UNION {
        LET delete == Call("delete_positions", id, date, NoName, <<>>, dr)
        IN  IF dr.exc # "" THEN {[calls |-> <<delete>>, ret |-> "False"]}
            ELSE IF StatusOk(dr)
            THEN {[calls |-> <<delete>> \o loop.calls, ret |-> loop.ret] :
                     loop \in PatchRuns(1, Chunked(positions, size), id, date)}
            ELSE {[calls |-> <<delete>>, ret |-> "False"]} :
        dr \in StatusResponses}

\* Portfolio.put_positions without the upsert of an unsaved portfolio: the
\* delete goes out with the identity as it is.
Portfolio_put_positions_NoUpsert(self_id, name, date, positions) ==
    {[calls |-> d.calls, exc |-> "", ret |-> d.ret, pId |-> self_id] :
        d \in DeleteRuns(self_id, date, positions, chunk_size)}

\* Portfolio.put_positions: every run it can take.  exc is the exception that
\* leaves the handler ("" when it returns ret), pId the identity afterwards.
Portfolio_put_positions(self_id, name, date, positions) ==
    LET ups == IF self_id = None
               THEN PutPortfolioRuns(name)
               ELSE {[calls |-> <<>>, exc |-> "", pId |-> self_id]}
    IN  UNION {
            IF up.exc # ""
            THEN {[calls |-> up.calls, exc |-> up.exc, ret |-> "", pId |-> self_id]}
            ELSE {[calls |-> up.calls \o d.calls, exc |-> "", ret |-> d.ret,
                   pId |-> up.pId] :
                     d \in DeleteRuns(up.pId, date, positions, chunk_size)} :
            up \in ups}

put_positions ==
    \E run \in Portfolio_put_positions(_portfolioId, _portfolioName,
                                       _portfolioDate, _my_positions) :
        /\ calls' = run.calls
        /\ _portfolioId' = run.pId
        /\ srv' = ServerAfter(srv, run.calls)
        /\ result' = Result("put_positions", run.exc, run.ret, Faithful(srv, run.calls))
        /\ UNCHANGED <<_portfolioName, _portfolioDate, _my_positions,
                       _portfolioGroupName, _portfolioGroupId,
                       _batchDefinitionName, _batchDefinitionId>>
        /\ UNCHANGED <<generator, analysisVars, roundTrip, clients>>
        /\ args' = NoArgs
        /\ UNCHANGED <<_valuation, memberVars>>

\* Position lists handed to the Portfolio constructor.
InitPositions ==
    {<<>>, <<[client_id |-> 2, quantity |-> 100], [client_id |-> 1, quantity |-> 100]>>}

\* A Portfolio right after construction; the service holds no portfolio yet.
InitPositionsSpec ==
    /\ _portfolioName = "A"
    /\ _portfolioId = None
    /\ _portfolioDate \in Dates \cup {NoDate}
    /\ _my_positions \in {sorted(ps) : ps \in InitPositions}
    /\ _portfolioGroupName = "G"
    /\ _portfolioGroupId = Unset
    /\ _batchDefinitionName = "D"
    /\ _batchDefinitionId = Unset
    /\ srv = [n \in Names |-> None]
    /\ calls = <<>>
    /\ result = Result("__init__", "", "None", FALSE)
    /\ _valuation = NoValuation
    /\ _portfolios = NoList
    /\ _portfolioGroups = NoList
    /\ _analysisDefinitions = NoList
    /\ args = NoArgs
    /\ generator = NoGenerator
    /\ roundTrip = NoRoundTrip
    /\ clients = NoClients
    /\ _analysisDefinitionName = "S"
    /\ _analysisDefinitionId = Unset

\* Position lists for the replacement of a portfolio's positions: with
\* pairwise different client ids, up to three of them, and with one client id
\* twice under different quantities.
ReplaceLists ==
    {<<>>,
     <<[client_id |-> 1, quantity |-> 100]>>,
     <<[client_id |-> 2, quantity |-> 100], [client_id |-> 1, quantity |-> 100]>>,
     <<[client_id |-> 2, quantity |-> 100], [client_id |-> 0, quantity |-> 100],
       [client_id |-> 1, quantity |-> 100]>>,
     <<[client_id |-> 1, quantity |-> 200], [client_id |-> 1, quantity |-> 100],
       [client_id |-> 2, quantity |-> 100]>>}

\* A Portfolio right after construction with one of these lists, saved under
\* identity 42 or not saved.
InitReplace ==
    /\ _portfolioName = "A"
    /\ _portfolioId \in {None, 42}
    /\ _portfolioDate \in Dates \cup {NoDate}
    /\ _my_positions \in {sorted(ps) : ps \in ReplaceLists}
    /\ _portfolioGroupName = "G"
    /\ _portfolioGroupId = Unset
    /\ _batchDefinitionName = "D"
    /\ _batchDefinitionId = Unset
    /\ srv = [n \in Names |-> IF n = "A" THEN _portfolioId ELSE None]
    /\ calls = <<>>
    /\ result = Result("__init__", "", "None", FALSE)
    /\ _valuation = NoValuation
    /\ _portfolios = NoList
    /\ _portfolioGroups = NoList
    /\ _analysisDefinitions = NoList
    /\ args = NoArgs
    /\ generator = NoGenerator
    /\ roundTrip = NoRoundTrip
    /\ clients = NoClients
    /\ _analysisDefinitionName = "S"
    /\ _analysisDefinitionId = Unset

\* The replacement of the positions, and the removal of a position before it.
NextReplace ==
    \/ del_position
    \/ put_positions

SpecReplace == InitReplace /\ [][NextReplace]_vars

NextPositions ==
    \/ add_position
    \/ del_position
    \/ put_positions

SpecPositions == InitPositionsSpec /\ [][NextPositions]_vars

---------------------------------------------------------------------------
(* Portfolio dates, valuation and reading positions back *)

\* datetime.date values of the model, written as their ISO form.
AllDates == {"2025-06-25", "2025-06-26"}

\* Valuation objects.
Valuations == {"V"}

\* Date strings a caller passes: '2025-06-25', '2025-06-26', '2025-6-25'
\* (nine characters) and '25-06-2025' (ten characters, day first).
Str25 == <<"2", "0", "2", "5", "-", "0", "6", "-", "2", "5">>
Str26 == <<"2", "0", "2", "5", "-", "0", "6", "-", "2", "6">>
StrShort == <<"2", "0", "2", "5", "-", "6", "-", "2", "5">>
StrDayFirst == <<"2", "5", "-", "0", "6", "-", "2", "0", "2", "5">>

DateStrings == {Str25, Str26, StrShort, StrDayFirst}

\* The date arguments: None, a datetime.date, or a str.
DateArgs ==
    {NoDateArg} \cup {DateArg("date", <<>>, d) : d \in AllDates}
        \cup {DateArg("str", cs, NoDate) : cs \in DateStrings}

\* datetime.date(y, m, d), as its ISO form, over the calendar of the model.
datetime_date(y, m, d) ==
    IF y = 2025 /\ m = 6 /\ d = 25 THEN "2025-06-25"
    ELSE IF y = 2025 /\ m = 6 /\ d = 26 THEN "2025-06-26"
    ELSE "ValueError"

\* assert len(date) == 10
\* date = datetime.date(int(date[:4]), int(date[5:7]), int(date[8:10]))
\* exc is the exception raised ("" if none), iso the date built.
ParseDate(chars) ==
    IF Len(chars) # 10 THEN [exc |-> "AssertionError", iso |-> NoDate]
    ELSE LET y == Slice(chars, 0, 4)
             m == Slice(chars, 5, 7)
             d == Slice(chars, 8, 10)
         IN  IF ~(IsInt(y) /\ IsInt(m) /\ IsInt(d))
             THEN [exc |-> "ValueError", iso |-> NoDate]
             ELSE IF datetime_date(int(y), int(m), int(d)) = "ValueError"
             THEN [exc |-> "ValueError", iso |-> NoDate]
             ELSE [exc |-> "", iso |-> datetime_date(int(y), int(m), int(d))]

\* if isinstance(date, str): <ParseDate>; a date or None passes through.
ToDate(date) ==
    IF date.type = "str" THEN ParseDate(date.chars)
    ELSE [exc |-> "", iso |-> date.iso]

\* Portfolio.date setter that leaves the cached valuation in place.
Portfolio_date_setter_KeepValuation(portfolioDate, valuation, value) ==
    LET d == ToDate(value)
    IN  IF d.exc # ""
        THEN [exc |-> d.exc, date |-> portfolioDate, valuation |-> valuation]
        ELSE [exc |-> "", date |-> d.iso, valuation |-> valuation]

\* The date setter against value: the fields afterwards and the exception.
Portfolio_date_setter(portfolioDate, valuation, value) ==
    LET d == ToDate(value)
    IN  IF d.exc # ""
        THEN [exc |-> d.exc, date |-> portfolioDate, valuation |-> valuation]
        ELSE [exc |-> "", date |-> d.iso, valuation |-> NoValuation]

date_setter ==
    \E value \in DateArgs :
        LET run == Portfolio_date_setter(_portfolioDate, _valuation, value)
        IN  /\ _portfolioDate' = run.date
            /\ _valuation' = run.valuation
            /\ calls' = <<>>
            /\ result' = Result("date_setter", run.exc,
                                IF run.exc = "" THEN "None" ELSE "", FALSE)
            /\ UNCHANGED <<generator, analysisVars, roundTrip, clients>>
            /\ args' = Args(<<>>, None, value, NoPosition, NoValuation)
            /\ UNCHANGED <<_portfolioName, _portfolioId, _my_positions,
                           _portfolioGroupName, _portfolioGroupId,
                           _batchDefinitionName, _batchDefinitionId,
                           memberVars, srv>>

\* Outcomes of PortfoliosAPI.get_positions_at_date: the items of the body, each
\* standing for a position by its clientId, or an exception.
PositionsResponses == {Listed(<<>>), Listed(<<2, 1>>), TransportError}

\* The Position built from an item of the body.
PositionOfItem(item) == [client_id |-> item, quantity |-> 100]

\* repr of a small non-negative int.
IntRepr(n) == Digits[n + 1]

\* Reading the items into the positions already held instead of into an
\* empty list.
ReadPositions_Keep(positions, items) ==
    sorted(positions \o [k \in 1..Len(items) |-> PositionOfItem(items[k])])

\* self._my_positions = []; one Position appended per item of the body;
\* self._my_positions = sorted(self._my_positions)
ReadPositions(positions, items) ==
    sorted([k \in 1..Len(items) |-> PositionOfItem(items[k])])

\* Portfolio.get_positions_for_date(date): every run it can take.  The fields
\* of a run are the portfolio's fields when the handler is left.
Portfolio_get_positions_for_date(self_id, name, portfolioDate, valuation, positions, date) ==
    LET before == [calls |-> <<>>, exc |-> "", ret |-> "", pId |-> self_id,
                   date |-> portfolioDate, valuation |-> valuation,
                   positions |-> positions]
        d == ToDate(date)
    IN  IF date.type = "NoneType" /\ portfolioDate = NoDate
        THEN {[before EXCEPT !.exc = "ValueError"]}
        ELSE IF d.exc # "" THEN {[before EXCEPT !.exc = d.exc]}
        ELSE LET changed == date.type # "NoneType" /\ d.iso # portfolioDate
                 date1 == IF changed THEN d.iso ELSE portfolioDate
                 val1 == IF changed THEN NoValuation ELSE valuation
                 dated == [before EXCEPT !.date = date1, !.valuation = val1]
                 ups == IF self_id = None
                        THEN PutPortfolioRuns(name)
                        ELSE {[calls |-> <<>>, exc |-> "", pId |-> self_id]}
             IN  UNION {
                     IF up.exc # ""
                     THEN {[dated EXCEPT !.calls = up.calls, !.exc = up.exc]}
                     ELSE {LET get == Call("get_positions_at_date", up.pId, date1,
                                           NoName, <<>>, r)
                               read == ReadPositions(positions, r.items)
                           IN  IF r.exc # ""
                               THEN [dated EXCEPT !.calls = up.calls \o <<get>>,
                                                  !.exc = r.exc, !.pId = up.pId]
                               ELSE [dated EXCEPT !.calls = up.calls \o <<get>>,
                                                  !.ret = IntRepr(Len(read)),
                                                  !.pId = up.pId,
                                                  !.positions = read] :
                              r \in PositionsResponses} :
                     up \in ups}

get_positions_for_date ==
    \E date \in DateArgs :
        \E run \in Portfolio_get_positions_for_date(
                       _portfolioId, _portfolioName, _portfolioDate, _valuation,
                       _my_positions, date) :
            /\ _portfolioId' = run.pId
            /\ _portfolioDate' = run.date
            /\ _valuation' = run.valuation
            /\ _my_positions' = run.positions
            /\ calls' = run.calls
            /\ srv' = ServerAfter(srv, run.calls)
            /\ result' = Result("get_positions_for_date", run.exc, run.ret, FALSE)
            /\ UNCHANGED <<generator, analysisVars, roundTrip, clients>>
            /\ args' = Args(<<>>, None, date, NoPosition, NoValuation)
            /\ UNCHANGED <<_portfolioName, _portfolioGroupName, _portfolioGroupId,
                           _batchDefinitionName, _batchDefinitionId, memberVars>>

\* Outcomes of PortfoliosAPI.put_valuation.
ValuationResponses == {Status(204), ValidationError("Bad Request"), TransportError}

\* Portfolio.set_valuation(valuation, date): every run it can take.
Portfolio_set_valuation(self_id, portfolioDate, valuation, date) ==
    LET cached == [calls |-> <<>>, exc |-> "", ret |-> "", date |-> portfolioDate,
                   valuation |-> valuation]
        d == ToDate(date)
    IN  IF date.type = "NoneType" /\ portfolioDate = NoDate
        THEN {[cached EXCEPT !.exc = "ValueError"]}
        ELSE IF portfolioDate = NoDate /\ d.exc # ""
        THEN {[cached EXCEPT !.exc = d.exc]}
        ELSE LET date1 == IF portfolioDate = NoDate THEN d.iso ELSE portfolioDate
             IN  {LET put == Call("put_valuation", self_id, date1, NoName, <<>>, r)
                  IN  IF r.exc # ""
                      THEN [cached EXCEPT !.calls = <<put>>, !.exc = r.exc,
                                          !.date = date1]
                      ELSE [cached EXCEPT !.calls = <<put>>, !.ret = "True",
                                          !.date = date1] :
                     r \in ValuationResponses}

set_valuation ==
    \E valuation \in Valuations, date \in DateArgs :
        \E run \in Portfolio_set_valuation(_portfolioId, _portfolioDate,
                                           valuation, date) :
            /\ _portfolioDate' = run.date
            /\ _valuation' = run.valuation
            /\ calls' = run.calls
            /\ result' = Result("set_valuation", run.exc, run.ret, FALSE)
            /\ UNCHANGED <<generator, analysisVars, roundTrip, clients>>
            /\ args' = Args(<<>>, None, date, NoPosition, valuation)
            /\ UNCHANGED <<_portfolioName, _portfolioId, _my_positions,
                           _portfolioGroupName, _portfolioGroupId,
                           _batchDefinitionName, _batchDefinitionId,
                           memberVars, srv>>

\* A Portfolio right after construction, new or bound to the remote portfolio
\* 42 by get_portfolio_by_name; the service holds what the portfolio is bound to.
InitPortfolio ==
    /\ _portfolioName = "A"
    /\ _portfolioId \in {None, 42}
    /\ _portfolioDate \in {NoDate, "2025-06-25"}
    /\ _my_positions \in {sorted(ps) : ps \in InitPositions}
    /\ _portfolioGroupName = "G"
    /\ _portfolioGroupId = Unset
    /\ _batchDefinitionName = "D"
    /\ _batchDefinitionId = Unset
    /\ _valuation = NoValuation
    /\ _portfolios = NoList
    /\ _portfolioGroups = NoList
    /\ _analysisDefinitions = NoList
    /\ srv = [n \in Names |-> IF n = "A" THEN _portfolioId ELSE None]
    /\ calls = <<>>
    /\ result = Result("__init__", "", "None", FALSE)
    /\ args = NoArgs
    /\ generator = NoGenerator
    /\ roundTrip = NoRoundTrip
    /\ clients = NoClients
    /\ _analysisDefinitionName = "S"
    /\ _analysisDefinitionId = Unset

NextPortfolio ==
    \/ date_setter
    \/ get_positions_for_date
    \/ set_valuation

SpecPortfolio == InitPortfolio /\ [][NextPortfolio]_vars

\* A portfolio's metadata upsert beside the operations on its date and its
\* valuation, on portfolios that hold positions or none.
NextMetadata ==
    \/ put_portfolio
    \/ date_setter
    \/ set_valuation

SpecMetadata == InitPortfolio /\ [][NextMetadata]_vars

---------------------------------------------------------------------------
(* Portfolio.get_position_dates *)

\* An item of the body of PortfoliosAPI.get_position_dates is the characters
\* of its d['date']; NoDateKey is an item without a 'date' key.
NoDateKey == <<>>

\* Outcomes of PortfoliosAPI.get_position_dates.
PositionDatesResponses ==
    {Listed(<<>>), Listed(<<Str25, Str26>>), Listed(<<NoDateKey, Str26>>),
     Listed(<<Str25, StrDayFirst>>), TransportError}

\* datetime.date(int(d['date'][:4]), int(d['date'][5:7]), int(d['date'][8:10]))
DateOfSlices(chars) ==
    LET y == Slice(chars, 0, 4)
        m == Slice(chars, 5, 7)
        d == Slice(chars, 8, 10)
    IN  IF ~(IsInt(y) /\ IsInt(m) /\ IsInt(d))
        THEN [exc |-> "ValueError", iso |-> NoDate]
        ELSE IF datetime_date(int(y), int(m), int(d)) = "ValueError"
        THEN [exc |-> "ValueError", iso |-> NoDate]
        ELSE [exc |-> "", iso |-> datetime_date(int(y), int(m), int(d))]

\* The head of the generator's body with the identity step left out: the
\* query goes out with whatever identity the portfolio holds.
Portfolio_get_position_dates_Unresolved(self_id, name) ==
    {[calls |-> <<Call("get_position_dates", self_id, NoDate, NoName, <<>>, r)>>,
      exc |-> r.exc, pId |-> self_id, items |-> r.items] :
        r \in PositionDatesResponses}

\* The generator's body up to its loop, run when the generator is first
\* resumed: every run it can take.
\*     if self._portfolioId is None: self.put_portfolio()
\*     r = PortfoliosAPI.get_position_dates(portfolio_id=self._portfolioId)
Portfolio_get_position_dates(self_id, name) ==
    LET ups == IF self_id = None
               THEN PutPortfolioRuns(name)
               ELSE {[calls |-> <<>>, exc |-> "", pId |-> self_id]}
    IN  UNION {
            IF up.exc # ""
            THEN {[calls |-> up.calls, exc |-> up.exc, pId |-> self_id,
                   items |-> <<>>]}
            ELSE {[calls |-> up.calls
                       \o <<Call("get_position_dates", up.pId, NoDate, NoName, <<>>, r)>>,
                   exc |-> r.exc, pId |-> up.pId, items |-> r.items] :
                     r \in PositionDatesResponses} :
            up \in ups}

\* The generator's loop from the items still to be looked at, up to its next
\* yield: items without 'date' are passed over, the first one with it is
\* yielded as a date (ret) and the generator suspends; a date that cannot be
\* built raises and the end of the items raises StopIteration, both closing
\* the generator.
RECURSIVE YieldFrom(_)
YieldFrom(items) ==
    IF Len(items) = 0
    THEN [exc |-> "StopIteration", ret |-> "", generator |-> Generator("closed", <<>>)]
    ELSE IF items[1] = NoDateKey THEN YieldFrom(Tail(items))
    ELSE LET d == DateOfSlices(items[1])
         IN  IF d.exc # ""
             THEN [exc |-> d.exc, ret |-> "", generator |-> Generator("closed", <<>>)]
             ELSE [exc |-> "", ret |-> d.iso,
                   generator |-> Generator("suspended", Tail(items))]

\* p.get_position_dates(): a generator function, so the call runs none of the
\* body and returns a new generator object.
get_position_dates ==
    /\ generator' = Generator("created", <<>>)
    /\ calls' = <<>>
    /\ result' = Result("get_position_dates", "", "generator", FALSE)
    /\ args' = NoArgs
    /\ UNCHANGED <<_portfolioName, _portfolioId, _portfolioDate, _my_positions,
                   _valuation, _portfolioGroupName, _portfolioGroupId,
                   _batchDefinitionName, _batchDefinitionId, memberVars,
                   analysisVars, roundTrip, clients, srv>>

\* next(generator): the body runs from where it stands to its next yield.
generator_next ==
    /\ generator.state # "none"
    /\ \/ /\ generator.state = "created"
          /\ \E run \in Portfolio_get_position_dates(_portfolioId, _portfolioName) :
                 LET y == IF run.exc # ""
                          THEN [exc |-> run.exc, ret |-> "",
                                generator |-> Generator("closed", <<>>)]
                          ELSE YieldFrom(run.items)
                 IN  /\ _portfolioId' = run.pId
                     /\ srv' = ServerAfter(srv, run.calls)
                     /\ calls' = run.calls
                     /\ generator' = y.generator
                     /\ result' = Result("next", y.exc, y.ret, FALSE)
       \/ /\ generator.state # "created"
          /\ LET y == YieldFrom(generator.items)
             IN  /\ generator' = y.generator
                 /\ result' = Result("next", y.exc, y.ret, FALSE)
          /\ calls' = <<>>
          /\ UNCHANGED <<_portfolioId, srv>>
    /\ args' = NoArgs
    /\ UNCHANGED <<_portfolioName, _portfolioDate, _my_positions, _valuation,
                   _portfolioGroupName, _portfolioGroupId,
                   _batchDefinitionName, _batchDefinitionId, memberVars,
                   analysisVars, roundTrip, clients>>

NextDates ==
    \/ get_position_dates
    \/ generator_next

SpecDates == InitPortfolio /\ [][NextDates]_vars

---------------------------------------------------------------------------
(* A Position through the write payload and back *)

\* Identifier lists of the Positions of the model.
IdentifierLists ==
    LET all == {Identifier(t, "X") : t \in IdentifierTypeNames}
    IN  {<<>>} \cup {<<a>> : a \in all} \cup {<<a, b>> : a \in all, b \in all}

\* The Positions of the model; a Quantity's currency may be None.
FullPositions ==
    {FullPosition(c, ids, Quantity(v, s, cur)) :
        c \in ClientIds, ids \in IdentifierLists, v \in Quantities,
        s \in QuantityTypeNames, cur \in {NoName, "USD"}}

\* Quantity.get_dict
Quantity_get_dict(q) ==
    Quantity(q.value, QuantityType_value(q.scale),
             IF q.currency # NoName THEN q.currency ELSE Missing)

\* Identifier.get_dict
Identifier_get_dict(i) == [type |-> IdentifierType_value(i.ident), value |-> i.value]

\* Identifiers.get_identifiers
Identifiers_get_identifiers(identifiers) ==
    [k \in 1..Len(identifiers) |-> Identifier_get_dict(identifiers[k])]

\* The dict put_positions builds for the position a:
\* dict(clientId=a.client_id, identifiers=a.identifiers.get_identifiers(),
\*      quantity=a.quantity.get_dict())
WritePayload(a) ==
    Payload(a.client_id, Identifiers_get_identifiers(a.identifiers),
            Quantity_get_dict(a.quantity), Missing)

\* The read item the service presents for a position written as payload: the
\* same clientId, identifiers and quantity.
MirroredItem(payload) == payload

\* The Position get_positions_for_date builds from the item p, or the
\* KeyError of an enum lookup by a name the enum does not have:
\*     IdentifierType[ident['type']], QuantityType[p['quantity']['scale']],
\*     currency=p.get('currency', None)
ParsePosition(p) ==
    IF \E k \in 1..Len(p.identifiers) : p.identifiers[k].type \notin IdentifierTypeNames
    THEN [exc |-> "KeyError", position |-> NoFullPosition]
    ELSE IF p.quantity.scale \notin QuantityTypeNames
    THEN [exc |-> "KeyError", position |-> NoFullPosition]
    ELSE [exc |-> "",
          position |->
              FullPosition(p.clientId,
                           [k \in 1..Len(p.identifiers) |->
                               Identifier(p.identifiers[k].type, p.identifiers[k].value)],
                           Quantity(p.quantity.value, p.quantity.scale,
                                    IF p.currency = Missing THEN NoName
                                    ELSE p.currency))]

\* What the round-trip steps leave alone.
entityVars ==
    <<_portfolioName, _portfolioId, _portfolioDate, _my_positions, _valuation,
      _portfolioGroupName, _portfolioGroupId, _batchDefinitionName,
      _batchDefinitionId, memberVars, analysisVars, generator, srv, calls,
      result, args, clients>>

\* The position is written as put_positions writes it.
write_payload ==
    /\ roundTrip.stage = "position"
    /\ roundTrip' = [roundTrip EXCEPT !.stage = "written",
                                      !.payload = WritePayload(roundTrip.position)]
    /\ UNCHANGED entityVars

\* The written payload comes back as a read item and is parsed as
\* get_positions_for_date parses it.
read_payload ==
    /\ roundTrip.stage = "written"
    /\ LET read == ParsePosition(MirroredItem(roundTrip.payload))
       IN  roundTrip' = [roundTrip EXCEPT !.stage = "read",
                                          !.parsed = read.position,
                                          !.exc = read.exc]
    /\ UNCHANGED entityVars

InitRoundTrip ==
    /\ _portfolioName = "A"
    /\ _portfolioId = None
    /\ _portfolioDate = NoDate
    /\ _my_positions = <<>>
    /\ _portfolioGroupName = "G"
    /\ _portfolioGroupId = Unset
    /\ _batchDefinitionName = "D"
    /\ _batchDefinitionId = Unset
    /\ _valuation = NoValuation
    /\ _portfolios = NoList
    /\ _portfolioGroups = NoList
    /\ _analysisDefinitions = NoList
    /\ _analysisDefinitionName = "S"
    /\ _analysisDefinitionId = Unset
    /\ srv = [n \in Names |-> None]
    /\ calls = <<>>
    /\ result = Result("__init__", "", "None", FALSE)
    /\ args = NoArgs
    /\ generator = NoGenerator
    /\ clients = NoClients
    /\ roundTrip \in {RoundTrip("position", p, NoPayload, NoFullPosition, "") :
                         p \in FullPositions}

NextRoundTrip ==
    \/ write_payload
    \/ read_payload

SpecRoundTrip == InitRoundTrip /\ [][NextRoundTrip]_vars

---------------------------------------------------------------------------
(* Member lists of PortfolioGroup and BatchDefinition *)

\* An add-members operation is started only while the member lists hold fewer
\* identities than this between them.
MaxMembers == 3

\* sorted(ids) for a list of integers
RECURSIVE sorted_ids(_)
sorted_ids(ids) ==
    IF Len(ids) <= 1 THEN ids
    ELSE LET rest == sorted_ids(SubSeq(ids, 1, Len(ids) - 1))
             x == ids[Len(ids)]
             k == Cardinality({i \in 1..Len(rest) : rest[i] <= x})
         IN  SubSeq(rest, 1, k) \o <<x>> \o SubSeq(rest, k + 1, Len(rest))

\* set(ids)
set(ids) == {ids[i] : i \in 1..Len(ids)}

\* sorted(list(S)) for a set of integers
RECURSIVE sorted_set(_)
sorted_set(S) ==
    IF S = {} THEN <<>>
    ELSE LET m == CHOOSE x \in S : \A y \in S : x <= y
         IN  <<m>> \o sorted_set(S \ {m})

\* list.remove(x): the list without the first element equal to x.
list_remove(ids, x) ==
    LET hits == {i \in 1..Len(ids) : ids[i] = x}
    IN  IF hits = {} THEN ids
        ELSE LET k == CHOOSE i \in hits : \A j \in hits : i <= j
             IN  SubSeq(ids, 1, k - 1) \o SubSeq(ids, k + 1, Len(ids))

\* Portfolio objects: saved under an identity, or never saved.
PortfolioItems == {Item("Portfolio", i, "A") : i \in Ids \cup {None}}

\* PortfolioGroup objects: saved, or never saved (no _portfolioGroupId attribute).
PortfolioGroupItems == {Item("PortfolioGroup", i, "G") : i \in Ids \cup {Unset}}

\* AnalysisDefinition objects: named or not; _analysisDefinitionId is an
\* attribute only once get_analysis_definition_id has set it.
AnalysisDefinitionItems ==
    {Item("AnalysisDefinition", Unset, "X"), Item("AnalysisDefinition", Unset, NoName),
     Item("AnalysisDefinition", 42, "X")}

\* A bare identity.
IdItems == {Item("int", i, NoName) : i \in Ids}

\* hasattr(item, 'portfolioName')
HasPortfolioName(item) == item.type = "Portfolio"

\* hasattr(item, 'analysisDefinitionName')
HasAnalysisDefinitionName(item) == item.type = "AnalysisDefinition"

\* The lists of no, one or two elements of S.
Lists(S) == {<<>>} \cup {<<a>> : a \in S} \cup {<<a, b>> : a \in S, b \in S}

\* add_portfolio_to_list passing over a candidate that is not a Portfolio.
RECURSIVE PortfolioGroup_add_portfolio_to_list_Skip(_, _, _)
PortfolioGroup_add_portfolio_to_list_Skip(portfolios, items, i) ==
    IF i > Len(items)
    THEN IF portfolios = NoList THEN [exc |-> "TypeError", list |-> portfolios]
         ELSE [exc |-> "", list |-> sorted_ids(portfolios)]
    ELSE LET item == items[i]
         IN  IF item.type = "Portfolio"
             THEN IF item.id = None \/ portfolios = NoList
                  THEN [exc |-> "AttributeError", list |-> portfolios]
                  ELSE PortfolioGroup_add_portfolio_to_list_Skip(
                           Append(portfolios, item.id), items, i + 1)
             ELSE PortfolioGroup_add_portfolio_to_list_Skip(portfolios, items, i + 1)

\* PortfolioGroup.add_portfolio_to_list: the loop from item i on, then the
\* sort.  A Portfolio without identity makes the loop call self.put_portfolio(),
\* which PortfolioGroup does not have: AttributeError.
RECURSIVE PortfolioGroup_add_portfolio_to_list(_, _, _)
PortfolioGroup_add_portfolio_to_list(portfolios, items, i) ==
    IF i > Len(items)
    THEN IF portfolios = NoList THEN [exc |-> "TypeError", list |-> portfolios]
         ELSE [exc |-> "", list |-> sorted_ids(portfolios)]
    ELSE LET item == items[i]
         IN  IF item.type = "Portfolio"
             THEN IF item.id = None \/ portfolios = NoList
                  THEN [exc |-> "AttributeError", list |-> portfolios]
                  ELSE PortfolioGroup_add_portfolio_to_list(
                           Append(portfolios, item.id), items, i + 1)
             ELSE [exc |-> IF HasPortfolioName(item) THEN "ValueError"
                           ELSE "AttributeError",
                   list |-> portfolios]

\* PortfolioGroup.remove_portfolio: the loop reads p._portfolioId of the first
\* member, an int.
PortfolioGroup_remove_portfolio(portfolios, portfolio) ==
    IF portfolios = NoList THEN [exc |-> "TypeError", list |-> portfolios]
    ELSE IF Len(portfolios) = 0 THEN [exc |-> "", list |-> portfolios]
    ELSE [exc |-> "AttributeError", list |-> portfolios]

\* BatchDefinition.add_portfolio_group_to_list: the loop from item i on, then
\* the deduplication and the sort.
RECURSIVE BatchDefinition_add_portfolio_group_to_list(_, _, _)
BatchDefinition_add_portfolio_group_to_list(portfolioGroups, items, i) ==
    IF i > Len(items)
    THEN IF portfolioGroups = NoList
         THEN [exc |-> "TypeError", list |-> portfolioGroups]
         ELSE [exc |-> "", list |-> sorted_set(set(portfolioGroups))]
    ELSE LET item == items[i]
         IN  IF item.type = "PortfolioGroup"
             THEN IF item.id \in {Unset, None}
                  THEN [exc |-> "AttributeError", list |-> portfolioGroups]
                  ELSE BatchDefinition_add_portfolio_group_to_list(
                           Append(IF portfolioGroups = NoList THEN <<>>
                                  ELSE portfolioGroups, item.id),
                           items, i + 1)
             ELSE [exc |-> IF HasPortfolioName(item) THEN "ValueError"
                           ELSE "AttributeError",
                   list |-> portfolioGroups]

\* BatchDefinition.remove_portfolio_group
BatchDefinition_remove_portfolio_group(portfolioGroups, portfolio_group) ==
    IF portfolio_group.type = "PortfolioGroup" /\ portfolio_group.id = Unset
    THEN [exc |-> "AttributeError", list |-> portfolioGroups]
    ELSE IF portfolioGroups = NoList
    THEN [exc |-> "TypeError", list |-> portfolioGroups]
    ELSE [exc |-> "", list |-> list_remove(portfolioGroups, portfolio_group.id)]

\* Outcomes of AnalysisDefinitionAPI.get_analysis_definitions.
AnalysisLookupResponses ==
    {Listed(<<>>), ValidationError("Bad Request")} \cup {Listed(<<i>>) : i \in Ids}

\* BatchDefinition.add_analysis_definitions_to_list: every run of the loop from
\* item i on, then the deduplication and the sort.  Each AnalysisDefinition is
\* looked up by name (get_analysis_definition_id) before its identity is added.
RECURSIVE BatchDefinition_add_analysis_definitions_to_list(_, _, _)
BatchDefinition_add_analysis_definitions_to_list(analysisDefinitions, items, i) ==
    IF i > Len(items)
    THEN IF analysisDefinitions = NoList
         THEN {[calls |-> <<>>, exc |-> "TypeError", list |-> analysisDefinitions]}
         ELSE {[calls |-> <<>>, exc |-> "",
                list |-> sorted_set(set(analysisDefinitions))]}
    ELSE LET item == items[i]
         IN  IF item.type # "AnalysisDefinition"
             THEN {[calls |-> <<>>,
                    exc |-> IF HasAnalysisDefinitionName(item) THEN "ValueError"
                            ELSE "AttributeError",
                    list |-> analysisDefinitions]}
             ELSE IF item.name = NoName
             THEN {[calls |-> <<>>, exc |-> "ValueError", list |-> analysisDefinitions]}
             ELSE UNION {
                 LET get == Call("get_analysis_definitions", None, NoDate, item.name,
                                 <<>>, r)
                 IN  IF r.exc # ""
                     THEN {[calls |-> <<get>>, exc |-> r.exc,
                            list |-> analysisDefinitions]}
                     ELSE IF Len(r.items) = 0
                     THEN {[calls |-> <<get>>, exc |-> "IndexError",
                            list |-> analysisDefinitions]}
                     ELSE {[calls |-> <<get>> \o rest.calls, exc |-> rest.exc,
                            list |-> rest.list] :
                              rest \in BatchDefinition_add_analysis_definitions_to_list(
                                  Append(IF analysisDefinitions = NoList THEN <<>>
                                         ELSE analysisDefinitions, r.items[1]),
                                  items, i + 1)} :
                 r \in AnalysisLookupResponses}

\* BatchDefinition.remove_analysis_definition
BatchDefinition_remove_analysis_definition(analysisDefinitions, analysis_definition) ==
    IF analysis_definition.type = "AnalysisDefinition" /\ analysis_definition.id = Unset
    THEN [exc |-> "AttributeError", list |-> analysisDefinitions]
    ELSE IF analysisDefinitions = NoList
    THEN [exc |-> "TypeError", list |-> analysisDefinitions]
    ELSE [exc |-> "", list |-> list_remove(analysisDefinitions, analysis_definition.id)]

\* len() of a member list; None counts as empty.
Members(list) == IF list = NoList THEN <<>> ELSE list

\* The number of identities in the three member lists.
MemberCount ==
    Len(Members(_portfolios)) + Len(Members(_portfolioGroups))
        + Len(Members(_analysisDefinitions))

\* What a local operation on the member lists leaves alone.
portfolioVars ==
    <<_portfolioName, _portfolioId, _portfolioDate, _my_positions, _valuation,
      _portfolioGroupName, _portfolioGroupId,
      _batchDefinitionName, _batchDefinitionId, srv>>

MemberArgs(items) == Args(items, None, NoDateArg, NoPosition, NoValuation)

MemberResult(op, exc) == Result(op, exc, IF exc = "" THEN "None" ELSE "", FALSE)

add_portfolio_to_list ==
    \E portfolios \in Lists(PortfolioItems \cup {Item("PortfolioGroup", 42, "G")}) :
        LET run == PortfolioGroup_add_portfolio_to_list(_portfolios, portfolios, 1)
        IN  /\ MemberCount < MaxMembers
            /\ _portfolios' = run.list
            /\ calls' = <<>>
            /\ result' = MemberResult("add_portfolio_to_list", run.exc)
            /\ UNCHANGED <<generator, analysisVars, roundTrip, clients>>
            /\ args' = MemberArgs(portfolios)
            /\ UNCHANGED <<portfolioVars, _portfolioGroups, _analysisDefinitions>>

remove_portfolio ==
    \E portfolio \in PortfolioItems \cup IdItems :
        LET run == PortfolioGroup_remove_portfolio(_portfolios, portfolio)
        IN  /\ _portfolios' = run.list
            /\ calls' = <<>>
            /\ result' = MemberResult("remove_portfolio", run.exc)
            /\ UNCHANGED <<generator, analysisVars, roundTrip, clients>>
            /\ args' = MemberArgs(<<portfolio>>)
            /\ UNCHANGED <<portfolioVars, _portfolioGroups, _analysisDefinitions>>

add_portfolio_group_to_list ==
    \E portfolio_groups \in Lists(PortfolioGroupItems \cup {Item("Portfolio", 42, "A")}) :
        LET run == BatchDefinition_add_portfolio_group_to_list(
                       _portfolioGroups, portfolio_groups, 1)
        IN  /\ MemberCount < MaxMembers
            /\ _portfolioGroups' = run.list
            /\ calls' = <<>>
            /\ result' = MemberResult("add_portfolio_group_to_list", run.exc)
            /\ UNCHANGED <<generator, analysisVars, roundTrip, clients>>
            /\ args' = MemberArgs(portfolio_groups)
            /\ UNCHANGED <<portfolioVars, _portfolios, _analysisDefinitions>>

remove_portfolio_group ==
    \E portfolio_group \in PortfolioGroupItems \cup IdItems :
        LET run == BatchDefinition_remove_portfolio_group(_portfolioGroups,
                                                          portfolio_group)
        IN  /\ _portfolioGroups' = run.list
            /\ calls' = <<>>
            /\ result' = MemberResult("remove_portfolio_group", run.exc)
            /\ UNCHANGED <<generator, analysisVars, roundTrip, clients>>
            /\ args' = MemberArgs(<<portfolio_group>>)
            /\ UNCHANGED <<portfolioVars, _portfolios, _analysisDefinitions>>

add_analysis_definitions_to_list ==
    \E analysis_definitions \in
           Lists({Item("AnalysisDefinition", Unset, "X"),
                  Item("AnalysisDefinition", Unset, NoName),
                  Item("int", 42, NoName)}) :
        \E run \in BatchDefinition_add_analysis_definitions_to_list(
                       _analysisDefinitions, analysis_definitions, 1) :
            /\ MemberCount < MaxMembers
            /\ _analysisDefinitions' = run.list
            /\ calls' = run.calls
            /\ result' = MemberResult("add_analysis_definitions_to_list", run.exc)
            /\ UNCHANGED <<generator, analysisVars, roundTrip, clients>>
            /\ args' = MemberArgs(analysis_definitions)
            /\ UNCHANGED <<portfolioVars, _portfolios, _portfolioGroups>>

remove_analysis_definition ==
    \E analysis_definition \in AnalysisDefinitionItems \cup IdItems :
        LET run == BatchDefinition_remove_analysis_definition(_analysisDefinitions,
                                                              analysis_definition)
        IN  /\ _analysisDefinitions' = run.list
            /\ calls' = <<>>
            /\ result' = MemberResult("remove_analysis_definition", run.exc)
            /\ UNCHANGED <<generator, analysisVars, roundTrip, clients>>
            /\ args' = MemberArgs(<<analysis_definition>>)
            /\ UNCHANGED <<portfolioVars, _portfolios, _portfolioGroups>>

\* A PortfolioGroup and a BatchDefinition right after construction, their
\* member lists empty: an empty list was passed, or the argument was left None.
InitMembers ==
    /\ _portfolioName = "A"
    /\ _portfolioId = None
    /\ _portfolioDate = NoDate
    /\ _my_positions = <<>>
    /\ _valuation = NoValuation
    /\ _portfolioGroupName = "G"
    /\ _portfolioGroupId = Unset
    /\ _batchDefinitionName = "D"
    /\ _batchDefinitionId = Unset
    /\ _portfolios \in {<<>>, NoList}
    /\ _portfolioGroups \in {<<>>, NoList}
    /\ _analysisDefinitions \in {<<>>, NoList}
    /\ srv = [n \in Names |-> None]
    /\ calls = <<>>
    /\ result = Result("__init__", "", "None", FALSE)
    /\ args = NoArgs
    /\ generator = NoGenerator
    /\ roundTrip = NoRoundTrip
    /\ clients = NoClients
    /\ _analysisDefinitionName = "S"
    /\ _analysisDefinitionId = Unset

\* The member list of a PortfolioGroup.
NextGroup ==
    \/ add_portfolio_to_list
    \/ remove_portfolio

SpecGroup == InitMembers /\ [][NextGroup]_vars

\* The member lists of a BatchDefinition.
NextBatch ==
    \/ add_portfolio_group_to_list
    \/ remove_portfolio_group
    \/ add_analysis_definitions_to_list
    \/ remove_analysis_definition

SpecBatch == InitMembers /\ [][NextBatch]_vars

\* The add-members operations of both entities.
NextAddMembers ==
    \/ add_portfolio_to_list
    \/ add_portfolio_group_to_list
    \/ add_analysis_definitions_to_list

SpecAddMembers == InitMembers /\ [][NextAddMembers]_vars

---------------------------------------------------------------------------
(* Portfolio.put_portfolio run by two clients at once *)

\* put_portfolio raising on every failed create, a conflict included.
Portfolio_put_portfolio_step_NoFallback(client, resp) ==
    IF resp.exc = ""
    THEN Client("assign", LocationId(resp.location), client.id, "")
    ELSE Client("raised", client.pId, client.id, resp.exc)

\* put_portfolio from the remote call the client is at, given that call's
\* response, up to its next remote call or its end.
Portfolio_put_portfolio_step(client, resp) ==
    IF client.pc = "post_portfolio"
    THEN IF resp.exc = ""
         THEN Client("assign", LocationId(resp.location), client.id, "")
         ELSE IF resp.exc = "AxiomaRequestValidationError"
                  /\ resp.message = "Duplicate Resource"
         THEN Client("get_portfolios", client.pId, client.id, "")
         ELSE Client("raised", client.pId, client.id, resp.exc)
    ELSE IF client.pc = "get_portfolios"
    THEN IF resp.exc # "" THEN Client("raised", client.pId, client.id, resp.exc)
         ELSE IF Len(resp.items) = 0
         THEN Client("raised", client.pId, client.id, "IndexError")
         ELSE Client("put_portfolio", resp.items[1], client.id, "")
    ELSE IF resp.exc = ""
    THEN Client("assign", client.pId, client.id, "")
    ELSE Client("raised", client.pId, client.id, resp.exc)

\* The remote call the client issues next, its response still to come.
NextCall(client, name) ==
    Call(client.pc, IF client.pc = "put_portfolio" THEN client.pId ELSE None,
         NoDate, name, <<>>, Status(0))

\* A client calls put_portfolio on its Portfolio: the handler builds the
\* portfolio struct and is about to issue the create call.
put_portfolio_call ==
    \E c \in Clients :
        /\ clients[c].pc = "idle"
        /\ clients' = [clients EXCEPT ![c] = Client("post_portfolio", None, None, "")]
        /\ UNCHANGED <<_portfolioName, _portfolioId, _portfolioDate, _my_positions,
                       _valuation, _portfolioGroupName, _portfolioGroupId,
                       _batchDefinitionName, _batchDefinitionId, memberVars,
                       analysisVars, generator, roundTrip, args, srv, calls, result>>

\* One client issues its next remote call; the service answers as one that
\* enforces name uniqueness does, and records a create at once.
put_portfolio_step ==
    \E c \in Clients :
        /\ clients[c].pc \in {"post_portfolio", "get_portfolios", "put_portfolio"}
        /\ \E resp \in HonestResponses(srv, NextCall(clients[c], _portfolioName)) :
               LET call == [NextCall(clients[c], _portfolioName) EXCEPT !.resp = resp]
                   after == Portfolio_put_portfolio_step(clients[c], resp)
               IN  /\ clients' = [clients EXCEPT ![c] = after]
                   /\ srv' = ServerStep(srv, call)
                   /\ calls' = Append(calls, call)
                   /\ result' = IF after.pc = "raised"
                                THEN Result("put_portfolio", after.exc, "", TRUE)
                                ELSE result
        /\ UNCHANGED <<_portfolioName, _portfolioId, _portfolioDate, _my_positions,
                       _valuation, _portfolioGroupName, _portfolioGroupId,
                       _batchDefinitionName, _batchDefinitionId, memberVars,
                       analysisVars, generator, roundTrip, args>>

\* self._portfolioId = pId; return True
put_portfolio_return ==
    \E c \in Clients :
        /\ clients[c].pc = "assign"
        /\ clients' = [clients EXCEPT ![c] =
                           Client("returned", clients[c].pId, clients[c].pId, "")]
        /\ result' = Result("put_portfolio", "", "True", TRUE)
        /\ UNCHANGED <<_portfolioName, _portfolioId, _portfolioDate, _my_positions,
                       _valuation, _portfolioGroupName, _portfolioGroupId,
                       _batchDefinitionName, _batchDefinitionId, memberVars,
                       analysisVars, generator, roundTrip, args, srv, calls>>

\* Two clients, each with a new Portfolio of the same name; the service holds
\* no portfolio of that name, and may hold one of the other name.
InitConcurrent ==
    /\ _portfolioName \in Names
    /\ _portfolioId = None
    /\ _portfolioDate = NoDate
    /\ _my_positions = <<>>
    /\ _portfolioGroupName = "G"
    /\ _portfolioGroupId = Unset
    /\ _batchDefinitionName = "D"
    /\ _batchDefinitionId = Unset
    /\ _valuation = NoValuation
    /\ _portfolios = NoList
    /\ _portfolioGroups = NoList
    /\ _analysisDefinitions = NoList
    /\ _analysisDefinitionName = "S"
    /\ _analysisDefinitionId = Unset
    /\ srv \in {s \in [Names -> Ids \cup {None}] : s[_portfolioName] = None}
    /\ calls = <<>>
    /\ result = Result("__init__", "", "None", FALSE)
    /\ args = NoArgs
    /\ generator = NoGenerator
    /\ roundTrip = NoRoundTrip
    /\ clients = NoClients

NextConcurrent ==
    \/ put_portfolio_call
    \/ put_portfolio_step
    \/ put_portfolio_return

SpecConcurrent == InitConcurrent /\ [][NextConcurrent]_vars

---------------------------------------------------------------------------
(* The service's positions of one portfolio on one date *)

\* The client ids the service may hold positions under: those of the positions
\* that are added one by one, and 0.
RemoteKeys == ClientIds \cup {0}

\* What the service may hold: for each client id the quantity held, or None.
RemoteSets == [RemoteKeys -> Quantities \cup {999, None}]

\* The positions after a call that took effect: delete_positions removes them
\* all, patch_positions puts each position of the upsert list under its
\* clientId (a later entry for the same clientId replacing an earlier one),
\* any other call leaves them.
RemoteApplied(R, call) ==
    IF call.api = "delete_positions" THEN [k \in RemoteKeys |-> None]
    ELSE IF call.api = "patch_positions"
    THEN [k \in RemoteKeys |->
             LET hits == {i \in 1..Len(call.upsert) : call.upsert[i].clientId = k}
             IN  IF hits = {} THEN R[k]
                 ELSE call.upsert[CHOOSE i \in hits : \A j \in hits : j <= i].quantity]
    ELSE R

\* The positions the service may hold after one call: a call answered with a
\* 2xx status took effect; one that raised or was answered otherwise may or
\* may not have.
RemoteStep(R, call) ==
    IF call.resp.exc = "" /\ call.resp.status >= 200 /\ call.resp.status <= 299
    THEN {RemoteApplied(R, call)}
    ELSE {R, RemoteApplied(R, call)}

\* The positions the service may hold after the calls cs, in order.
RECURSIVE RemoteOutcomes(_, _)
RemoteOutcomes(R, cs) ==
    IF Len(cs) = 0 THEN {R}
    ELSE UNION {RemoteOutcomes(R1, Tail(cs)) : R1 \in RemoteStep(R, cs[1])}

---------------------------------------------------------------------------
(* Properties *)

Apis == [i \in 1..Len(calls) |-> calls[i].api]

IsDuplicate(resp) ==
    resp.exc = "AxiomaRequestValidationError" /\ resp.message = "Duplicate Resource"

\* The response is a status code of the 2xx class.
Is2xx(resp) == resp.exc = "" /\ resp.status >= 200 /\ resp.status <= 299

\* The response is a status code outside the 2xx class.
Non2xx(resp) == resp.exc = "" /\ ~(resp.status >= 200 /\ resp.status <= 299)

DeleteIdx == {i \in 1..Len(calls) : calls[i].api = "delete_positions"}

PatchIdx == {i \in 1..Len(calls) : calls[i].api = "patch_positions"}

\* The patch calls of the most recent operation, in the order issued.
IsPatch(call) == call.api = "patch_positions"

PatchCalls == SelectSeq(calls, IsPatch)

RECURSIVE Concat(_)
Concat(seqs) == IF Len(seqs) = 0 THEN <<>> ELSE seqs[1] \o Concat(SubSeq(seqs, 2, Len(seqs)))

\* C1: when the create call of put_portfolio fails as 'Duplicate Resource', the
\* next call is a lookup filtered on the portfolio's exact name; if it finds
\* items, exactly one update call follows, targeting the first item's identity
\* and carrying the portfolio's name, and if that update succeeds the
\* operation returns True with the portfolio's identity set to that identity.
C1_ConflictFallback ==
    (result.op = "put_portfolio" /\ IsDuplicate(calls[1].resp)) =>
        /\ Len(calls) >= 2
        /\ calls[2].api = "get_portfolios"
        /\ calls[2].name = _portfolioName
        /\ (calls[2].resp.exc = "" /\ Len(calls[2].resp.items) >= 1) =>
               /\ Apis = <<"post_portfolio", "get_portfolios", "put_portfolio">>
               /\ calls[3].id = calls[2].resp.items[1]
               /\ calls[3].name = _portfolioName
               /\ calls[3].resp.exc = "" =>
                      /\ result.exc = ""
                      /\ result.ret = "True"
                      /\ _portfolioId = calls[2].resp.items[1]

\* C1 witness: create reports a duplicate, the lookup finds identity 42 alone,
\* the update targets 42 and the portfolio ends with identity 42.
C1_Witness ==
    /\ result.op = "put_portfolio"
    /\ Len(calls) = 3
    /\ IsDuplicate(calls[1].resp)
    /\ calls[2].resp = Listed(<<42>>)
    /\ calls[3].api = "put_portfolio"
    /\ calls[3].id = 42
    /\ result.ret = "True"
    /\ _portfolioId = 42

\* C2: a put_portfolio that directly follows a successful put_portfolio of the
\* same portfolio, both answered by a service enforcing name uniqueness,
\* succeeds with the same identity, by exactly one failed create attempt, one
\* lookup and one update of that identity; the service gains no portfolio.
C2_UpsertIdempotent ==
    [][(/\ WasFaithfulPut
        /\ result'.op = "put_portfolio"
        /\ result'.faithful)
       => /\ result'.exc = ""
          /\ result'.ret = "True"
          /\ _portfolioId' = _portfolioId
          /\ [i \in 1..Len(calls') |-> calls'[i].api]
                 = <<"post_portfolio", "get_portfolios", "put_portfolio">>
          /\ calls'[1].resp.exc # ""
          /\ calls'[3].id = _portfolioId
          /\ srv' = srv]_vars

\* C2 witness: a faithful put_portfolio that found the portfolio already on the
\* service (created there by an earlier put_portfolio) and updated it.
C2_Witness ==
    /\ WasFaithfulPut
    /\ Len(calls) = 3
    /\ IsDuplicate(calls[1].resp)
    /\ calls[3].id = _portfolioId
    /\ srv[_portfolioName] = _portfolioId

\* C3: when the create call of put_portfolio succeeds it is the only call, the
\* operation returns True, and the portfolio's identity is the integer in the
\* last path segment of the location reference (42 for .../p/42, 7 for /p/7).
C3_CreateSuccessTerminal ==
    (result.op = "put_portfolio" /\ calls[1].resp.exc = "") =>
        /\ Apis = <<"post_portfolio">>
        /\ result.exc = ""
        /\ result.ret = "True"
        /\ calls[1].resp.location = Loc42 => _portfolioId = 42
        /\ calls[1].resp.location = Loc7 => _portfolioId = 7

\* C3 witness: a create answered with location /v1/p/42.
C3_Witness ==
    /\ result.op = "put_portfolio"
    /\ calls[1].resp = Created(Loc42)
    /\ _portfolioId = 42
    /\ result.ret = "True"

\* C4: when the create call of put_portfolio, put_portfolio_group or
\* put_batch_definition fails with anything but 'Duplicate Resource', that
\* failure leaves the operation, the create is the only call issued, and no
\* entity's identity is set or changed.
C4_OtherCreateFailurePropagates ==
    [][(/\ result'.op \in {"put_portfolio", "put_portfolio_group", "put_batch_definition"}
        /\ calls'[1].resp.exc # ""
        /\ ~IsDuplicate(calls'[1].resp))
       => /\ result'.exc = calls'[1].resp.exc
          /\ Len(calls') = 1
          /\ _portfolioId' = _portfolioId
          /\ _portfolioGroupId' = _portfolioGroupId
          /\ _batchDefinitionId' = _batchDefinitionId]_vars

\* C4 witness: a put_portfolio_group whose create was rejected as a bad request;
\* the group still has no identity.
C4_Witness ==
    /\ result.op = "put_portfolio_group"
    /\ calls = <<Call("post_portfolio_group", None, NoDate, _portfolioGroupName, <<>>,
                      ValidationError("Bad Request"))>>
    /\ result.exc = "AxiomaRequestValidationError"
    /\ _portfolioGroupId = Unset

\* C5: a put_portfolio issues one create, or one create and one lookup, or one
\* create, one lookup and one update, in that order; a single call on success
\* by create; and a failed fallback update (a second conflict too) is the last
\* call and its failure leaves the operation.
C5_AtMostOneFallback ==
    result.op = "put_portfolio" =>
        /\ Apis \in {<<"post_portfolio">>,
                     <<"post_portfolio", "get_portfolios">>,
                     <<"post_portfolio", "get_portfolios", "put_portfolio">>}
        /\ calls[1].resp.exc = "" => Len(calls) = 1
        /\ (result.exc = "" /\ calls[1].resp.exc # "") => Len(calls) = 3
        /\ (Len(calls) = 3 /\ calls[3].resp.exc # "") =>
               /\ result.exc = calls[3].resp.exc
               /\ result.ret = ""

\* C5 witness: the fallback update meets a second conflict.
C5_Witness ==
    /\ result.op = "put_portfolio"
    /\ Len(calls) = 3
    /\ IsDuplicate(calls[1].resp)
    /\ IsDuplicate(calls[3].resp)
    /\ result.exc = "AxiomaRequestValidationError"

\* C6: in put_positions a patch call answered with a non-2xx status is the last
\* call of the operation, which returns False.
C6_PatchFailureAborts ==
    result.op = "put_positions" =>
        \A k \in PatchIdx :
            Non2xx(calls[k].resp) =>
                /\ k = Len(calls)
                /\ result.exc = ""
                /\ result.ret = "False"

\* C6 witness: a position list of three chunks whose second patch got a non-2xx
\* status: two patch calls were issued.
C6_Witness ==
    /\ result.op = "put_positions"
    /\ Len(_my_positions) > 2 * chunk_size
    /\ Len(PatchCalls) = 2
    /\ Non2xx(PatchCalls[2].resp)
    /\ result.ret = "False"

\* C7: put_positions issues at most one delete call, scoped to the portfolio's
\* identity and date, and every patch call comes after it; a non-2xx delete
\* response makes it return False without any patch call.
C7_DeleteFirst ==
    result.op = "put_positions" =>
        /\ Cardinality(DeleteIdx) <= 1
        /\ \A p \in PatchIdx : \E d \in DeleteIdx : d < p
        /\ \A d \in DeleteIdx :
               /\ calls[d].id = _portfolioId
               /\ calls[d].id # None
               /\ calls[d].date = _portfolioDate
               /\ Non2xx(calls[d].resp) =>
                      /\ PatchIdx = {}
                      /\ result.exc = ""
                      /\ result.ret = "False"

\* C7 witness: a non-empty position list whose delete got 404.
C7_Witness ==
    /\ result.op = "put_positions"
    /\ Len(_my_positions) > 0
    /\ \E d \in DeleteIdx : calls[d].resp = Status(404)
    /\ PatchIdx = {}
    /\ result.ret = "False"

\* C8: a put_positions that returns True over n positions with chunk size S
\* issued ceil(n/S) patch calls, each carrying at most S positions and all but
\* the last exactly S, and their payloads in call order concatenate to the
\* payloads of the portfolio's positions in list order.
C8_Chunking ==
    (result.op = "put_positions" /\ result.ret = "True") =>
        LET n == Len(_my_positions)
            S == chunk_size
            m == Len(PatchCalls)
        IN  /\ m = (IF n % S = 0 THEN n \div S ELSE (n \div S) + 1)
            /\ \A i \in 1..m : Len(PatchCalls[i].upsert) <= S
            /\ \A i \in 1..(m - 1) : Len(PatchCalls[i].upsert) = S
            /\ Concat([i \in 1..m |-> PatchCalls[i].upsert])
                   = [k \in 1..n |->
                         [clientId |-> _my_positions[k].client_id,
                          quantity |-> _my_positions[k].quantity]]

\* C8 witness: S + 1 positions went out as two chunks, of S positions and of 1.
C8_Witness ==
    /\ result.op = "put_positions"
    /\ result.ret = "True"
    /\ Len(_my_positions) = chunk_size + 1
    /\ Len(PatchCalls) = 2
    /\ Len(PatchCalls[1].upsert) = chunk_size
    /\ Len(PatchCalls[2].upsert) = 1

\* C9: put_positions never raises for a remote failure: whenever one of its
\* remote calls (ensuring the identity, the delete, a patch) failed, it
\* returned False.
C9_NeverRaises ==
    (/\ result.op = "put_positions"
     /\ \E i \in 1..Len(calls) : calls[i].resp.exc # "" \/ Non2xx(calls[i].resp))
    => /\ result.exc = ""
       /\ result.ret = "False"

\* C10: put_positions returns True if and only if every step succeeded: the
\* identity is resolved, the delete was answered with a 2xx status and so was
\* every chunk's patch.
C10_TrueIffAllSucceeded ==
    (result.op = "put_positions" /\ result.exc = "") =>
        (result.ret = "True" <=>
            /\ _portfolioId # None
            /\ \E d \in DeleteIdx : Is2xx(calls[d].resp)
            /\ \A p \in PatchIdx : Is2xx(calls[p].resp))

\* The operations that issue remote calls.
RemoteOps ==
    {"put_portfolio", "put_positions", "get_positions_for_date", "set_valuation",
     "put_portfolio_group", "put_batch_definition"}

\* The local fields of the three entities.
localState ==
    <<_portfolioId, _portfolioDate, _my_positions, _valuation,
      _portfolioGroupId, _batchDefinitionId,
      _portfolios, _portfolioGroups, _analysisDefinitions>>

\* C11: when the last remote call of an operation failed (it raised, or it
\* answered a non-2xx status), the local fields of the entities are what they
\* were before the operation.
C11_FailureLeavesLocalState ==
    [][(/\ result'.op \in RemoteOps
        /\ Len(calls') >= 1
        /\ ~Is2xx(calls'[Len(calls')].resp))
       => localState' = localState]_vars

\* C12: once the portfolio's remote identity has been assigned, no operation
\* changes it to a different value.
C12_IdentityNeverReassigned ==
    [][_portfolioId # None => _portfolioId' = _portfolioId]_vars

\* A member list without duplicates, in ascending order (None holds no member).
SortedUnique(list) ==
    list = NoList \/ \A i \in 1..(Len(list) - 1) : list[i] < list[i + 1]

\* Every item is a saved entity of the given type, or a bare identity.
AllSaved(items, type) ==
    \A i \in 1..Len(items) :
        items[i].type \in {type, "int"} /\ items[i].id \in Ids

\* C13: add_portfolio_to_list and remove_portfolio, called with saved
\* portfolios on a member list that is duplicate-free and ascending, leave it
\* duplicate-free and ascending.
C13_GroupMembersSortedUnique ==
    [][(/\ result'.op \in {"add_portfolio_to_list", "remove_portfolio"}
        /\ AllSaved(args'.items, "Portfolio")
        /\ SortedUnique(_portfolios))
       => SortedUnique(_portfolios')]_vars

\* C14: after any sequence of add_portfolio_group_to_list,
\* remove_portfolio_group, add_analysis_definitions_to_list and
\* remove_analysis_definition calls, the portfolio-group id list and the
\* analysis-definition id list are duplicate-free and ascending.
C14_BatchMembersSortedUnique ==
    SortedUnique(_portfolioGroups) /\ SortedUnique(_analysisDefinitions)

\* C15: after construction and after every add_position, del_position and
\* positions-setter call the positions are in ascending order of client_id,
\* and the position an add_position was given is in the list.
C15_PositionsSorted ==
    /\ \A i \in 1..(Len(_my_positions) - 1) :
           _my_positions[i].client_id <= _my_positions[i + 1].client_id
    /\ result.op = "add_position" =>
           \E i \in 1..Len(_my_positions) : _my_positions[i] = args.position

\* C15 witness: a position with client_id 1 was added to a portfolio holding
\* one with client_id 2, and stands before it.
C15_Witness ==
    /\ result.op = "add_position"
    /\ args.position.client_id = 1
    /\ Len(_my_positions) >= 2
    /\ _my_positions[1].client_id = 1
    /\ _my_positions[Len(_my_positions)].client_id = 2

\* The items of the most recent operation that are Portfolios without a
\* remote identity.
UnsavedPortfolios ==
    {i \in 1..Len(args.items) :
        args.items[i].type = "Portfolio" /\ args.items[i].id = None}

\* C16: add_portfolio_to_list, given portfolios of which some have no remote
\* identity, issues exactly one create call (one upsert) for each of those, and
\* no null identity is in the member list.
C16_CascadingSave ==
    (/\ result.op = "add_portfolio_to_list"
     /\ _portfolios # NoList
     /\ \A i \in 1..Len(args.items) : args.items[i].type = "Portfolio"
     /\ UnsavedPortfolios # {})
    => /\ Cardinality({i \in 1..Len(calls) : calls[i].api = "post_portfolio"})
              = Cardinality(UnsavedPortfolios)
       /\ \A i \in 1..Len(_portfolios) : _portfolios[i] # None

\* after is before without its first element equal to id, or before itself
\* when no element equals id.
FirstMatchRemoved(before, after, id) ==
    LET hits == {i \in 1..Len(before) : before[i] = id}
    IN  IF hits = {} THEN after = before
        ELSE \E k \in hits :
                 /\ \A j \in hits : k <= j
                 /\ after = SubSeq(before, 1, k - 1) \o SubSeq(before, k + 1, Len(before))

\* A remove-member operation op, given a saved entity or a bare identity on a
\* member list, returns without error having removed the first match.
RemovesFirstMatch(op, before, after) ==
    (/\ result'.op = op
     /\ before # NoList
     /\ args'.items[1].id \in Ids)
    => /\ result'.exc = ""
       /\ FirstMatchRemoved(before, after, args'.items[1].id)

\* C17: remove_portfolio, remove_portfolio_group and remove_analysis_definition
\* take an entity (through its identity) or a bare identity, remove the first
\* matching id and nothing else, and do nothing, without error, when the id is
\* not in the list.
C17_RemoveMember ==
    [][/\ RemovesFirstMatch("remove_portfolio", _portfolios, _portfolios')
       /\ RemovesFirstMatch("remove_portfolio_group",
                            _portfolioGroups, _portfolioGroups')
       /\ RemovesFirstMatch("remove_analysis_definition",
                            _analysisDefinitions, _analysisDefinitions')]_vars

\* Exceptions raised by the client itself, without a remote call.
ClientErrors == {"ValueError", "AttributeError", "TypeError", "IndexError"}

\* The candidates of the most recent operation that are not of type.
WrongType(items, type) == {i \in 1..Len(items) : items[i].type # type}

\* An add-members operation op expecting candidates of type, given a candidate
\* of another type, raises; the error is a client-side one unless a remote
\* lookup for an earlier candidate raised first; and the list grows by nothing
\* but the identities (ids, in candidate order) of candidates that stand
\* before the first candidate of another type.
RejectsWrongType(op, type, before, after, ids) ==
    (result'.op = op /\ WrongType(args'.items, type) # {})
    => /\ result'.exc # ""
       /\ (\A c \in 1..Len(calls') : calls'[c].resp.exc = "")
              => result'.exc \in ClientErrors
       /\ \E n \in 0..Len(args'.items) :
              /\ \A w \in WrongType(args'.items, type) : n < w
              /\ n <= Len(ids)
              /\ Members(after) = Members(before) \o SubSeq(ids, 1, n)

\* C18: add_portfolio_to_list, add_portfolio_group_to_list and
\* add_analysis_definitions_to_list fail whenever a candidate is not of the
\* expected type, and nothing of that candidate or of those after it enters
\* the member list.
C18_WrongTypeRejected ==
    [][/\ RejectsWrongType("add_portfolio_to_list", "Portfolio",
                           _portfolios, _portfolios',
                           [i \in 1..Len(args'.items) |-> args'.items[i].id])
       /\ RejectsWrongType("add_portfolio_group_to_list", "PortfolioGroup",
                           _portfolioGroups, _portfolioGroups',
                           [i \in 1..Len(args'.items) |-> args'.items[i].id])
       /\ RejectsWrongType("add_analysis_definitions_to_list", "AnalysisDefinition",
                           _analysisDefinitions, _analysisDefinitions',
                           [c \in {k \in 1..Len(calls') : Len(calls'[k].resp.items) > 0}
                               |-> calls'[c].resp.items[1]])]_vars

\* C18 witness: a saved Portfolio followed by a PortfolioGroup were handed to
\* add_portfolio_to_list; the call raised and only the portfolio's identity is
\* in the list.
C18_Witness ==
    /\ result.op = "add_portfolio_to_list"
    /\ args.items = <<Item("Portfolio", 7, "A"), Item("PortfolioGroup", 42, "G")>>
    /\ result.exc = "AttributeError"
    /\ _portfolios = <<7>>

\* The name (natural key) of the entity an upsert operation works on.
NameOf(op) ==
    IF op = "put_portfolio" THEN _portfolioName
    ELSE IF op = "put_portfolio_group" THEN _portfolioGroupName
    ELSE _batchDefinitionName

\* C19: an upsert invoked on an entity whose name is unset raises without
\* having issued any remote call.
C19_NameRequired ==
    (/\ result.op \in {"put_portfolio", "put_portfolio_group", "put_batch_definition"}
     /\ NameOf(result.op) = NoName)
    => /\ Len(calls) = 0
       /\ result.exc # ""

\* The operation ops got a date string whose length is not 10 and rejected it:
\* it raised, issued no remote call and changed no local field.
RejectsShortDate(ops) ==
    (/\ result'.op \in ops
     /\ args'.date.type = "str"
     /\ Len(args'.date.chars) # 10)
    => /\ result'.exc # ""
       /\ Len(calls') = 0
       /\ localState' = localState

\* C20: the date setter, get_positions_for_date and set_valuation reject a
\* date string whose length is not 10 before any remote call and before any
\* local field is changed.
C20_ShortDateRejected ==
    [][RejectsShortDate({"date_setter", "get_positions_for_date", "set_valuation"})]_vars

\* C21: when the date setter or get_positions_for_date changes the
\* portfolio's date to a different date, the cached valuation is absent after
\* the operation.
C21_DateChangeInvalidatesValuation ==
    [][(/\ result'.op \in {"date_setter", "get_positions_for_date"}
        /\ _portfolioDate' # _portfolioDate)
       => _valuation' = NoValuation]_vars

\* C21 witness: the date setter, given '2025-06-26', returned with the portfolio
\* on 2025-06-26, a date no portfolio is constructed with, and no valuation is
\* cached.
C21_Witness ==
    /\ result.op = "date_setter"
    /\ result.exc = ""
    /\ args.date = DateArg("str", Str26, NoDate)
    /\ _portfolioDate = "2025-06-26"
    /\ _valuation = NoValuation

\* C22: every put_valuation call of set_valuation carries a resolved remote
\* identity and, when the caller passed a date, that date; the valuation
\* passed is the one cached afterwards.
C22_ValuationScoped ==
    (result.op = "set_valuation" /\ Len(calls) >= 1)
    => /\ calls[1].api = "put_valuation"
       /\ calls[1].id # None
       /\ args.date.type # "NoneType" => calls[1].date = ToDate(args.date).iso
       /\ _valuation = args.valuation

\* The number of elements of seq whose client_id is c.
CountOf(seq, c) == Cardinality({i \in 1..Len(seq) : seq[i].client_id = c})

\* C23: after a get_positions_for_date call that returned, the positions are
\* exactly those built from the items the service answered for the
\* portfolio's identity and date, in ascending order of client_id, nothing
\* else, and the value returned is their number.
C23_FullReplace ==
    (result.op = "get_positions_for_date" /\ result.exc = "")
    => LET get == calls[Len(calls)]
           items == get.resp.items
       IN  /\ get.api = "get_positions_at_date"
           /\ get.id = _portfolioId
           /\ get.date = _portfolioDate
           /\ Len(_my_positions) = Len(items)
           /\ \A i \in 1..Len(_my_positions) :
                  /\ _my_positions[i] = PositionOfItem(_my_positions[i].client_id)
                  /\ CountOf(_my_positions, _my_positions[i].client_id)
                         = Cardinality({k \in 1..Len(items) :
                                           items[k] = _my_positions[i].client_id})
           /\ \A i \in 1..(Len(_my_positions) - 1) :
                  _my_positions[i].client_id <= _my_positions[i + 1].client_id
           /\ result.ret = IntRepr(Len(_my_positions))

\* C23 witness: the service answered the items 2 and 1; the portfolio holds
\* the positions 1 and 2 and the call returned 2.
C23_Witness ==
    /\ result.op = "get_positions_for_date"
    /\ result.exc = ""
    /\ calls[Len(calls)].resp.items = <<2, 1>>
    /\ _my_positions = <<PositionOfItem(1), PositionOfItem(2)>>
    /\ result.ret = "2"

\* The position-dates queries among the calls cs.
DatesQueries(cs) == {i \in 1..Len(cs) : cs[i].api = "get_position_dates"}

\* C24: every traversal of a generator returned by get_position_dates starts
\* with a fresh position-dates query, preceded by the creation of the
\* portfolio when its identity is unresolved; unless that creation fails, the
\* query is the last call, the only query, and carries the portfolio's
\* identity; no query carries an unresolved identity, and resuming a
\* traversal under way issues no call.
C24_FreshQueryPerTraversal ==
    [][result'.op = "next" =>
        /\ \A i \in DatesQueries(calls') : calls'[i].id # None
        /\ generator.state = "created" =>
              /\ Len(calls') >= 1
              /\ _portfolioId = None => calls'[1].api = "post_portfolio"
              /\ \/ /\ DatesQueries(calls') = {Len(calls')}
                    /\ calls'[Len(calls')].id = _portfolioId'
                    /\ _portfolioId' # None
                 \/ /\ DatesQueries(calls') = {}
                    /\ _portfolioId = None
                    /\ _portfolioId' = None
                    /\ result'.exc \notin {"", "StopIteration"}
        /\ generator.state # "created" => calls' = <<>>]_vars

\* C24 witness: the portfolio got identity 7 from the creation an earlier
\* traversal started with; a later traversal issued one query, for identity 7,
\* and yielded its first date.
C24_Witness ==
    /\ result.op = "next"
    /\ _portfolioId = 7
    /\ Len(calls) = 1
    /\ calls[1].api = "get_position_dates"
    /\ calls[1].id = 7
    /\ result.ret = "2025-06-25"
    /\ generator.state = "suspended"

\* The entity whose identity a resolve-by-name operation is after.
EntityOf(op) ==
    IF op \in {"put_portfolio", "get_portfolio_by_name"} THEN "Portfolio"
    ELSE IF op = "put_portfolio_group" THEN "PortfolioGroup"
    ELSE IF op \in {"put_batch_definition", "get_batch_definition_id"}
    THEN "BatchDefinition"
    ELSE "AnalysisDefinition"

\* The list queries filtered on a name, and the update calls.
LookupApis ==
    {"get_portfolios", "get_portfolio_group", "get_batch_definitions",
     "get_analysis_definitions"}

UpdateIdx == {i \in 1..Len(calls) : calls[i].api = "put_portfolio"}

\* C25: in put_portfolio, put_portfolio_group, put_batch_definition,
\* get_batch_definition_id, get_analysis_definition_id and
\* get_portfolio_by_name, a name lookup that answers one or more items
\* resolves to the first item's identity: an update call that follows targets
\* it, and an operation that returns has recorded it (the two get_..._id
\* return it).  A lookup that answers no item ends the operation as not found
\* (get_portfolio_by_name returns None, the others raise IndexError), with no
\* update call and with the entity's identity as it was.
C25_ResolveByName ==
    [][\A k \in 1..Len(calls') :
         (/\ result'.op \in {"put_portfolio", "put_portfolio_group",
                             "put_batch_definition", "get_batch_definition_id",
                             "get_analysis_definition_id", "get_portfolio_by_name"}
          /\ calls'[k].api \in LookupApis
          /\ calls'[k].resp.exc = "")
         => \A entity \in {EntityOf(result'.op)} :
            LET items == calls'[k].resp.items
                identity == IdentityOf(entity)
            IN  IF Len(items) >= 1
                THEN /\ \A u \in UpdateIdx' : u = k + 1 /\ calls'[u].id = items[1]
                     /\ result'.exc = "" => identity' = items[1]
                     /\ result'.op \in {"put_portfolio", "put_portfolio_group"}
                            => k + 1 \in UpdateIdx'
                     /\ result'.op \in {"get_batch_definition_id",
                                        "get_analysis_definition_id"}
                            => result'.exc = "" /\ result'.ret = IntStr(items[1])
                     /\ result'.op = "get_portfolio_by_name"
                            => /\ result'.ret = "Portfolio"
                               /\ _portfolioName' = args'.items[1].name
                ELSE /\ UpdateIdx' = {}
                     /\ k = Len(calls')
                     /\ identity' = identity
                     /\ IF result'.op = "get_portfolio_by_name"
                        THEN result'.exc = "" /\ result'.ret = "None"
                        ELSE result'.exc = "IndexError"]_vars

\* C25 witness: get_batch_definition_id got the items 7 and 42 for its name,
\* returned 7 and recorded it.
C25_Witness ==
    /\ result.op = "get_batch_definition_id"
    /\ calls[1].resp.items = <<7, 42>>
    /\ result.ret = "7"
    /\ _batchDefinitionId = 7

\* C26: a Position written as put_positions writes it, presented back as a
\* read item and parsed as get_positions_for_date parses it, is a Position
\* with the same client_id, the same identifiers in the same order and the
\* same quantity (value, scale and currency).
C26_RoundTrip ==
    roundTrip.stage = "read"
    => /\ roundTrip.exc = ""
       /\ roundTrip.parsed.client_id = roundTrip.position.client_id
       /\ roundTrip.parsed.identifiers = roundTrip.position.identifiers
       /\ roundTrip.parsed.quantity = roundTrip.position.quantity

\* The kind of a call of an upsert: create, lookup or update.
KindOf(api) ==
    IF api \in {"post_portfolio", "post_portfolio_group", "post_batch_definition"}
    THEN "create"
    ELSE IF api \in LookupApis THEN "lookup"
    ELSE IF api \in {"put_portfolio", "put_batch_definition"} THEN "update"
    ELSE api

Kinds(cs) == [i \in 1..Len(cs) |-> KindOf(cs[i].api)]

\* Two runs of an upsert issue the same kinds of calls in the same order and
\* end alike: the same exception, or success recording the same identity.
SameProtocol(a, b) ==
    /\ Kinds(a.calls) = Kinds(b.calls)
    /\ a.exc = b.exc
    /\ a.pId = b.pId

\* C27: given the same responses to their create, lookup and update calls,
\* put_portfolio, put_portfolio_group and put_batch_definition issue the same
\* sequence of create / lookup / update calls and end in the same outcome.
C27_UniformUpsert ==
    \A cr \in CreateResponses :
        \A lr \in LookupsAfter(cr) :
            \A ur \in UpdatesAfter(cr, lr, GroupUpdateResponses) :
                LET p == Portfolio_put_portfolio(_portfolioName, cr, lr, ur)
                    g == PortfolioGroup_put_portfolio_group(_portfolioGroupName,
                                                            cr, lr, ur)
                    b == BatchDefinition_put_batch_definition(_batchDefinitionName,
                                                              cr, lr)
                IN  SameProtocol(p, g) /\ SameProtocol(p, b)

\* The positions of the portfolio as the service holds them once all are
\* written and nothing else is held.
RemoteOf(positions) ==
    [k \in RemoteKeys |->
        LET hits == {i \in 1..Len(positions) : positions[i].client_id = k}
        IN  IF hits = {} THEN None
            ELSE positions[CHOOSE i \in hits : \A j \in hits : j <= i].quantity]

\* C28: when a put_positions run that failed (it returned False or raised) is
\* followed by a put_positions run on the same portfolio, date and positions
\* that returns True, then whatever the service held before the first run and
\* whatever the failed run wrote, the service ends up holding what it would
\* hold had the first run not happened: the portfolio's positions.
C28_RerunAfterFailure ==
    [][(/\ result.op = "put_positions"
        /\ result.ret # "True"
        /\ result'.op = "put_positions"
        /\ result'.exc = ""
        /\ result'.ret = "True"
        /\ _my_positions' = _my_positions
        /\ _portfolioDate' = _portfolioDate)
       => \A R0 \in RemoteSets :
              \A R1 \in RemoteOutcomes(R0, calls) :
                  /\ RemoteOutcomes(R1, calls') = RemoteOutcomes(R0, calls')
                  /\ RemoteOutcomes(R1, calls') = {RemoteOf(_my_positions')}]_vars

\* C28 witness: a run over three chunks wrote the first and failed on the
\* second; the service then holds part of the positions, and a run that
\* starts from here can return True.
C28_Witness ==
    /\ result.op = "put_positions"
    /\ result.ret = "False"
    /\ Len(_my_positions) > 2 * chunk_size
    /\ Len(PatchCalls) = 2
    /\ Is2xx(PatchCalls[1].resp)
    /\ PatchCalls[2].resp.exc # ""
    /\ \E R1 \in RemoteOutcomes([k \in RemoteKeys |-> None], calls) :
           R1 # RemoteOf(_my_positions)

\* The client_id a del_position call named, by a Position or by itself.
DeletedClientId(a) ==
    IF a.position # NoPosition THEN a.position.client_id ELSE a.id

\* C29: after del_position, called with a Position or with a client_id, the
\* list holds no position with that client_id; and when the list held none
\* before the call it is unchanged.
C29_DelPosition ==
    [][result'.op = "del_position"
       => LET cid == DeletedClientId(args')
          IN  /\ CountOf(_my_positions', cid) = 0
              /\ CountOf(_my_positions, cid) = 0 => _my_positions' = _my_positions]_vars

\* The first n positions of a list.
FirstPositions(positions, n) == SubSeq(positions, 1, Min(n, Len(positions)))

\* C30: when put_positions stops at chunk k, the patch call of that chunk
\* having raised or been answered with a status the code does not accept, the
\* call is the last remote call of the run and the run returns False; and
\* whatever the service held before the run, it then holds the positions of
\* chunks 1..k-1, alone or together with those of chunk k, and nothing else.
C30_NoRollback ==
    result.op = "put_positions" =>
        \A k \in 1..Len(PatchCalls) :
            (PatchCalls[k].resp.exc # "" \/ ~StatusOk(PatchCalls[k].resp)) =>
                /\ k = Len(PatchCalls)
                /\ calls[Len(calls)] = PatchCalls[k]
                /\ result.exc = ""
                /\ result.ret = "False"
                /\ \A R0 \in RemoteSets :
                       /\ RemoteOutcomes(R0, calls) \subseteq
                              {RemoteOf(FirstPositions(_my_positions, (k - 1) * chunk_size)),
                               RemoteOf(FirstPositions(_my_positions, k * chunk_size))}
                       /\ RemoteOf(FirstPositions(_my_positions, (k - 1) * chunk_size))
                              \in RemoteOutcomes(R0, calls)
                           \/ Is2xx(PatchCalls[k].resp)

\* C30 witness: a run over positions with different client ids wrote its first
\* chunk, was answered 404 on the second of three, and stopped there; the
\* service holds the first chunk, or the first two.
C30_Witness ==
    /\ result.op = "put_positions"
    /\ result.ret = "False"
    /\ Len(_my_positions) > 2 * chunk_size
    /\ Len(PatchCalls) = 2
    /\ Is2xx(PatchCalls[1].resp)
    /\ Non2xx(PatchCalls[2].resp)
    /\ calls[Len(calls)] = PatchCalls[2]
    /\ RemoteOf(FirstPositions(_my_positions, chunk_size))
           # RemoteOf(FirstPositions(_my_positions, 2 * chunk_size))
    /\ RemoteOutcomes([k \in RemoteKeys |-> 999], calls) =
           {RemoteOf(FirstPositions(_my_positions, chunk_size)),
            RemoteOf(FirstPositions(_my_positions, 2 * chunk_size))}

\* The calls of the portfolio upsert among the calls of the latest operation.
UpsertIdx ==
    {i \in 1..Len(calls) :
        calls[i].api \in {"post_portfolio", "get_portfolios", "put_portfolio"}}

\* C31: a put_positions run on a portfolio without identity starts with the
\* create call of the portfolio upsert, and every call of the upsert comes
\* before the delete call; every delete and patch call carries an identity
\* that is not None, the one the portfolio holds afterwards; and a run whose
\* upsert raised issued no delete and no patch call.
C31_IdentityFirst ==
    [][result'.op = "put_positions"
       => /\ _portfolioId = None
              => /\ Len(calls') >= 1
                 /\ calls'[1].api = "post_portfolio"
                 /\ \A u \in UpsertIdx' : \A d \in DeleteIdx' \cup PatchIdx' : u < d
          /\ \A d \in DeleteIdx' \cup PatchIdx' :
                 /\ calls'[d].id # None
                 /\ calls'[d].id = _portfolioId'
          /\ result'.exc # "" => DeleteIdx' \cup PatchIdx' = {}]_vars

\* C31 witness: a run that began with the create call, so on a portfolio
\* without identity, went through the conflict fallback and then issued its
\* delete and a patch under the identity the lookup gave.
C31_Witness ==
    /\ result.op = "put_positions"
    /\ Len(calls) >= 5
    /\ calls[1].api = "post_portfolio"
    /\ calls[2].api = "get_portfolios"
    /\ calls[3].api = "put_portfolio"
    /\ calls[4].api = "delete_positions"
    /\ calls[5].api = "patch_positions"
    /\ calls[4].id = _portfolioId
    /\ _portfolioId # None

\* The remote calls that read or write a portfolio's positions, position
\* dates or valuation.
PositionApis ==
    {"delete_positions", "patch_positions", "get_positions_at_date",
     "get_position_dates", "put_valuation"}

\* C32: put_portfolio issues no call on the portfolio's positions, and of the
\* portfolio's fields it leaves the name, the positions, the date and the
\* cached valuation as they were; only the identity may differ afterwards.
C32_MetadataOnly ==
    [][result'.op = "put_portfolio"
       => /\ \A i \in 1..Len(calls') : calls'[i].api \notin PositionApis
          /\ \A i \in 1..Len(calls') :
                 calls'[i].api \in {"post_portfolio", "get_portfolios", "put_portfolio"}
          /\ _my_positions' = _my_positions
          /\ _portfolioDate' = _portfolioDate
          /\ _valuation' = _valuation
          /\ _portfolioName' = _portfolioName]_vars

\* C32 witness: put_portfolio returned True on a portfolio that holds
\* positions, a date and a cached valuation, and the portfolio has an identity.
C32_Witness ==
    /\ result.op = "put_portfolio"
    /\ result.exc = ""
    /\ Len(_my_positions) > 0
    /\ _portfolioDate # NoDate
    /\ _valuation # NoValuation
    /\ _portfolioId # None
    /\ Len(calls) >= 1

\* The run went on after its call i: another call follows it, or it was the
\* last call and the run returned True.
WentOn(i) == i < Len(calls) \/ (result.exc = "" /\ result.ret = "True")

\* C33: in a put_positions run, a delete or patch call answered with a status
\* code counts as successful, the run going on after it, exactly when the
\* code is from 200 to 299; and the test the run applies agrees with that on
\* every code from 100 to 599.
C33_SuccessIs2xx ==
    /\ \A s \in 100..599 : StatusOk(Status(s)) <=> (200 <= s /\ s <= 299)
    /\ result.op = "put_positions" =>
           \A i \in DeleteIdx \cup PatchIdx :
               calls[i].resp.exc = "" =>
                   (WentOn(i) <=> (200 <= calls[i].resp.status /\ calls[i].resp.status <= 299))

\* The calls of the latest operation that create an entity or look one up by
\* name.
ResolvingIdx ==
    {i \in 1..Len(calls) : KindOf(calls[i].api) \in {"create", "lookup"}}

\* C34: an upsert of a Portfolio, PortfolioGroup or BatchDefinition that
\* already holds a remote identity issues no create call and no name lookup
\* for it.
C34_NeverReResolved ==
    [][\A entity \in {EntityOf(result'.op)} :
           (/\ result'.op \in {"put_portfolio", "put_portfolio_group",
                               "put_batch_definition"}
            /\ IdentityOf(entity) \notin {None, Unset})
           => ResolvingIdx' = {}]_vars

\* The first candidate of the latest add_portfolio_group_to_list call that is a
\* PortfolioGroup without remote identity, the candidates before it all being
\* saved PortfolioGroups; 0 when there is none.
FirstUnsavedGroup ==
    LET found == {i \in 1..Len(args.items) :
                     /\ args.items[i].type = "PortfolioGroup"
                     /\ args.items[i].id \in {None, Unset}
                     /\ \A j \in 1..(i - 1) :
                            /\ args.items[j].type = "PortfolioGroup"
                            /\ args.items[j].id \notin {None, Unset}}
    IN  IF found = {} THEN 0 ELSE CHOOSE i \in found : TRUE

\* C35: add_portfolio_group_to_list given a PortfolioGroup that was never
\* saved upserts the group first: the call begins the group's upsert with its
\* create call, does not fail on the group, and puts an identity of the
\* service in the batch's portfolio-group id list.
C35_CascadingGroupSave ==
    (result.op = "add_portfolio_group_to_list" /\ FirstUnsavedGroup # 0) =>
        /\ Len(calls) >= 1
        /\ calls[1].api = "post_portfolio_group"
        /\ result.exc # "AttributeError"
        /\ result.exc = "" =>
               /\ _portfolioGroups # NoList
               /\ Len(_portfolioGroups) >= 1
               /\ \A k \in 1..Len(_portfolioGroups) : _portfolioGroups[k] \in Ids

\* The create calls among the calls so far that the service accepted.
CreatedIdx ==
    {i \in 1..Len(calls) : calls[i].api = "post_portfolio" /\ calls[i].resp.exc = ""}

\* C36: two clients call put_portfolio for the same name, which the service
\* does not hold yet, their remote calls interleaved in any order, the service
\* enforcing name uniqueness on create.  No invocation raises; an invocation
\* that has not ended can always go on; at most one create is accepted; and
\* once both have returned exactly one create was accepted and both clients
\* hold the same identity, the one the service holds for the name.
C36_ConcurrentUpsert ==
    /\ \A c \in Clients : clients[c].pc # "raised"
    /\ \A c \in Clients :
           clients[c].pc \in {"post_portfolio", "get_portfolios", "put_portfolio"}
           => HonestResponses(srv, NextCall(clients[c], _portfolioName)) # {}
    /\ Cardinality(CreatedIdx) <= 1
    /\ (\A c \in Clients : clients[c].pc = "returned") =>
           /\ Cardinality(CreatedIdx) = 1
           /\ clients[1].id = clients[2].id
           /\ clients[1].id = srv[_portfolioName]
           /\ clients[1].id # None

\* C36 witness: both clients issued their create call before either went on;
\* one create was accepted, the other client went through lookup and update,
\* and both have returned.
C36_Witness ==
    /\ \A c \in Clients : clients[c].pc = "returned"
    /\ Len(calls) = 4
    /\ calls[1].api = "post_portfolio"
    /\ calls[2].api = "post_portfolio"
    /\ calls[3].api = "get_portfolios"
    /\ calls[4].api = "put_portfolio"
    /\ clients[1].id = clients[2].id

\* The positions have pairwise different client ids.
DistinctClientIds(positions) ==
    \A i, j \in 1..Len(positions) :
        positions[i].client_id = positions[j].client_id => i = j

\* C37: when put_positions returned True on positions with pairwise different
\* client ids, then whatever the service held for the portfolio and date
\* before the call, it holds afterwards every position of the list under its
\* client id with its quantity, and nothing under any other client id.
C37_FullReplace ==
    (/\ result.op = "put_positions"
     /\ result.exc = ""
     /\ result.ret = "True"
     /\ DistinctClientIds(_my_positions))
    => \A R0 \in RemoteSets :
           \A R \in RemoteOutcomes(R0, calls) :
               /\ \A i \in 1..Len(_my_positions) :
                      R[_my_positions[i].client_id] = _my_positions[i].quantity
               /\ \A k \in RemoteKeys :
                      (\A i \in 1..Len(_my_positions) : _my_positions[i].client_id # k)
                      => R[k] = None

\* C37 witness: three positions with different client ids went out in two
\* chunks after the delete, the run returned True, and a service that held
\* other quantities under all client ids now holds the three positions.
C37_Witness ==
    /\ result.op = "put_positions"
    /\ result.ret = "True"
    /\ Len(_my_positions) = 3
    /\ DistinctClientIds(_my_positions)
    /\ Len(PatchCalls) = 2
    /\ RemoteOutcomes([k \in RemoteKeys |-> 999], calls) = {RemoteOf(_my_positions)}
    /\ \A k \in RemoteKeys : RemoteOf(_my_positions)[k] = 100

\* C38: an add_portfolio_to_list, add_portfolio_group_to_list or
\* add_analysis_definitions_to_list call that raises leaves the three member
\* lists as they were before the call.
C38_FailedAddLeavesList ==
    [][(/\ result'.op \in {"add_portfolio_to_list", "add_portfolio_group_to_list",
                           "add_analysis_definitions_to_list"}
        /\ result'.exc # "")
       => /\ _portfolios' = _portfolios
          /\ _portfolioGroups' = _portfolioGroups
          /\ _analysisDefinitions' = _analysisDefinitions]_vars

====
